---- MODULE Spec2Model ----
(***************************************************************************)
(* Model of the call-session orchestration core of justcall:               *)
(*   - CallState and its transition predicate   (src/core/call_state.rs)   *)
(*   - CallController: join, hangup, on_conference_joined,                  *)
(*     on_conference_left, emit_state_change                               *)
(*                       (src-tauri/src/controllers/call_controller.rs)    *)
(*   - ConferenceWindow: open, close                                       *)
(*                       (src-tauri/src/services/conference_window.rs)     *)
(*   - SettingsStore: load, save, add_target, remove_target,               *)
(*     update_target and the settings file (src/storage/settings_store.rs) *)
(*   - Settings and its serde serialization     (src/models/settings.rs)   *)
(* Every CallController method is a sequence of steps of the calling       *)
(* thread: it takes the Mutex<CallState> first and holds the guard until   *)
(* it returns.                                                             *)
(***************************************************************************)
EXTENDS Integers, Sequences, FiniteSets, TLC

\* ------------------------------------------------------------------ bounds
NumThreads == 2
MaxOps == 4

Threads == 1..NumThreads
NoThread == 0
None == "None"

\* ------------------------------------------------------- CallState (pure)
CallStates == {"Idle", "Connecting", "InCall", "Disconnecting"}

\* A transition predicate that also lets a call drop straight back to Idle.
can_transition_to_backwards(self, next) ==
    \/ <<self, next>> \in {<<"Idle", "Connecting">>, <<"Connecting", "InCall">>,
                           <<"Connecting", "Disconnecting">>,
                           <<"InCall", "Disconnecting">>,
                           <<"Disconnecting", "Idle">>}
    \/ <<self, next>> = <<"InCall", "Idle">>

\* match (*self, next) { ... _ => false }
can_transition_to(self, next) ==
    CASE self = "Idle" /\ next = "Connecting" -> TRUE
      [] self = "Connecting" /\ next = "InCall" -> TRUE
      [] self = "Connecting" /\ next = "Disconnecting" -> TRUE
      [] self = "InCall" /\ next = "Disconnecting" -> TRUE
      [] self = "Disconnecting" /\ next = "Idle" -> TRUE
      [] OTHER -> FALSE

\* CallState::description, which Display writes
description(self) ==
    CASE self = "Idle" -> "ready"
      [] self = "Connecting" -> "connecting"
      [] self = "InCall" -> "in call"
      [] self = "Disconnecting" -> "disconnecting"

\* ------------------------------------------------------ settings store
\* Option<T>: None is the empty sequence, Some(x) the one-element sequence.
Nothing == <<>>
Some(x) == <<x>>

\* CallDefaults::default
DefaultCallDefaults ==
    [start_with_audio |-> TRUE, start_with_video |-> TRUE, display_name |-> Nothing]

\* A Target value with the given id and primary flag and the remaining fields
\* filled in from the id.
Target(id, is_primary) ==
    [id |-> id, label |-> "Test " \o id, code |-> "test-code-" \o id,
     target_type |-> "Person", is_primary |-> is_primary,
     call_defaults |-> DefaultCallDefaults,
     created_at |-> "2024-01-01T00:00:00Z", notes |-> Nothing]

\* AppSettings::default
DefaultAppSettings ==
    [autostart |-> FALSE, always_on_top |-> TRUE, play_join_sound |-> TRUE,
     show_notifications |-> TRUE, theme |-> "System"]

\* Values of target_os: the three the code names, and one of the others
TargetOses == {"macos", "windows", "linux", "freebsd"}

\* get_default_keybinds in a build for the target: the one
\* #[cfg(target_os = ...)] block that is compiled in
get_default_keybinds_on(target) ==
    CASE target = "macos" ->
             [join_primary |-> "Cmd+Shift+J", hangup |-> "Cmd+Shift+H",
              join_target_prefix |-> "Cmd+Shift+"]
      [] target = "windows" ->
             [join_primary |-> "Ctrl+Shift+J", hangup |-> "Ctrl+Shift+H",
              join_target_prefix |-> "Ctrl+Shift+"]
      [] target = "linux" ->
             [join_primary |-> "Ctrl+Shift+J", hangup |-> "Ctrl+Shift+H",
              join_target_prefix |-> "Ctrl+Shift+"]
      [] OTHER ->
             [join_primary |-> "Ctrl+Alt+J", hangup |-> "Ctrl+Alt+H",
              join_target_prefix |-> "Ctrl+Alt+"]

\* get_default_keybinds, as built for Linux (and for Windows)
get_default_keybinds == get_default_keybinds_on("linux")

\* Keybinds::default
DefaultKeybinds ==
    [join_primary |-> get_default_keybinds.join_primary,
     hangup |-> get_default_keybinds.hangup,
     target_hotkeys |-> <<>>, toggle_mute |-> Nothing, toggle_video |-> Nothing]

\* Settings::default
DefaultSettings ==
    [version |-> 1, app_settings |-> DefaultAppSettings,
     keybinds |-> DefaultKeybinds, targets |-> <<>>]

\* Target collections a settings document can hold when it is loaded.
InitialStores ==
    { <<>>,
      <<Target("target1", TRUE)>>,
      <<Target("target1", TRUE), Target("target2", FALSE)>> }

\* Ids a caller can hand to join: two that a store can hold, one that none holds.
JoinIds == {"target1", "target2", "target3"}


\* ------------------------------------------------------------------ state
VARIABLES
    state,           \* CallController.state: Mutex<CallState>, the value
    state_lock,      \* ... and the thread holding its guard (NoThread: free)
    current_target,  \* CallController.current_target: Mutex<Option<String>>
    target_lock,     \* ... and the thread holding its guard
    window,          \* ConferenceWindow.window is Some
    wm_conference,   \* the window manager holds a window labelled "conference"
    targets,         \* SettingsStore.settings.targets
    version,         \* SettingsStore.settings.version
    app_settings,    \* SettingsStore.settings.app_settings
    keybinds,        \* SettingsStore.settings.keybinds
    file,            \* the file at SettingsStore.file_path
    temp,            \* the file at file_path.with_extension("json.tmp")
    dir_exists,      \* the parent directory of file_path exists
    loaded,          \* what SettingsStore::load returned at startup
    reloaded,        \* what the load_from_path call being run returned
    store_pc,        \* where the owner of the store is in the method it runs
    store_op,        \* the store method being run
    store_arg,       \* its argument: a Target, or an id
    store_result,    \* the value the store method is about to return
    store_pre,       \* settings and files as they were when the method was called
    fs_log,          \* file-system calls the method being run has made, in order
    saved,           \* the settings written by the last save that succeeded
    store_nops,      \* number of store method calls started
    faults,          \* number of file-system calls that have failed
    shortcuts,       \* GlobalShortcutService.shortcuts: hotkey string -> action
    facility,        \* the OS-level shortcut facility: key combination -> the
                     \* action its listener emits (listeners of this process)
    hotkey_events,   \* payloads of the "hotkey-pressed" events emitted so far
    meetings,        \* room ids of the meetings opened in the browser so far
    last_call,       \* the last call of a registry method and what it returned
    dropped,         \* the GlobalShortcutService has been dropped
    registry_nops,   \* number of registry calls and key presses so far
    cmd,             \* per thread: the command or handler it runs
    app_locks,       \* AppState: the thread holding the guard of each Mutex
    target_os,       \* the target_os the program was built for
    keybind_defaults,\* what the last get_default_keybinds call returned
    sha256,          \* Sha256: the digest of every message hashed so far
    rooms,           \* the room_id_from_code calls made: code and room id
    emitted,         \* payloads of the "call-state-changed" events emitted so far
    history,         \* values written to state so far, in order
    open_calls,      \* number of ConferenceWindow::open calls made
    close_calls,     \* number of ConferenceWindow::close calls made
    pc,              \* per thread: where it is in the method it runs
    op,              \* per thread: the method it runs
    arg,             \* per thread: join's target_id
    current,         \* per thread: the local `current` (state read under the guard)
    result,          \* per thread: the value the method is about to return
    pre,             \* per thread: what the thread saw when it took the state guard
    launch,          \* per thread: outcome of the window.open call of this join
    nops             \* number of method calls started

ctrl_vars == <<state, state_lock, current_target, target_lock>>
settings_vars == <<targets, version, app_settings, keybinds>>
disk_vars == <<file, temp, dir_exists>>
store_vars == <<settings_vars, disk_vars, loaded, reloaded, store_pc, store_op, store_arg,
                store_result, store_pre, fs_log, saved, store_nops, faults>>
core_vars == <<target_os, keybind_defaults, sha256, rooms>>
app_vars == <<shortcuts, facility, hotkey_events, meetings, last_call, dropped,
              registry_nops, cmd, app_locks, core_vars>>
win_vars == <<window, wm_conference, open_calls, close_calls>>
thread_vars == <<pc, op, arg, current, result, pre, launch>>
vars == <<state, state_lock, current_target, target_lock, window, wm_conference,
          targets, emitted, history, open_calls, close_calls,
          pc, op, arg, current, result, pre, launch, nops,
          version, app_settings, keybinds, file, temp, dir_exists, loaded,
          reloaded,
          store_pc, store_op, store_arg, store_result, store_pre, fs_log,
          saved, store_nops, faults,
          shortcuts, facility, hotkey_events, meetings, last_call, dropped,
          registry_nops, cmd, app_locks, target_os, keybind_defaults, sha256,
          rooms>>

Ok == "Ok"
Pending == "pending"

\* Files: absent, a complete JSON document, a prefix of the text of one
\* (what a write that has not finished leaves), or text that is not JSON.
NoFile == [kind |-> "absent"]
JsonFile(doc) == [kind |-> "json", doc |-> doc]
PartialFile(doc) == [kind |-> "partial", doc |-> doc]
GarbageFile == [kind |-> "garbage"]

NotLoaded == [status |-> "none"]
NoStorePre == [settings |-> DefaultSettings, file |-> NoFile, temp |-> NoFile]
NoPre == [state |-> None, target |-> None, nemit |-> 0, nhist |-> 0,
          open_calls |-> 0, close_calls |-> 0]

\* ------------------------------------------- serde_json for the settings types
\* Every string a settings value of this model can hold.
Strings ==
    UNION { {id, "Test " \o id, "test-code-" \o id} : id \in JoinIds }
    \cup {"Updated Label", "2024-01-01T00:00:00Z", "Work friend", "Alice",
          "Ctrl+Shift+J", "Ctrl+Shift+H", "Cmd+Opt+J", "Cmd+Opt+H",
          "Cmd+Opt+1", "Cmd+Opt+M", "Ctrl+Shift+j", "NotAHotkey", ""}

\* A string as JSON text, and back
quote(s) == "\"" \o s \o "\""
unquote(v) == CHOOSE s \in Strings : quote(s) = v

\* Option<String>: None is written null
option_to_json(o) == IF o = Nothing THEN "null" ELSE quote(o[1])
option_from_json(v) == IF v = "null" THEN Nothing ELSE Some(unquote(v))

\* #[serde(rename_all = "lowercase")] on Theme and TargetType
Themes == {"Light", "Dark", "System"}
TargetTypes == {"Person", "Group"}
variant_to_json(v) ==
    quote(CASE v = "Light" -> "light"
            [] v = "Dark" -> "dark"
            [] v = "System" -> "system"
            [] v = "Person" -> "person"
            [] v = "Group" -> "group")
variant_from_json(variants, v) == CHOOSE x \in variants : variant_to_json(x) = v
is_variant(variants, v) == \E x \in variants : variant_to_json(x) = v

\* A field that is written only when it is Some
\* (#[serde(skip_serializing_if = "Option::is_none")])
skip_if_none(name, o) == IF o = Nothing THEN <<>> ELSE (name :> quote(o[1]))

\* A field that may be missing from the document
field_or(d, name, default) == IF name \in DOMAIN d THEN d[name] ELSE default
option_field(d, name) ==
    IF name \in DOMAIN d THEN option_from_json(d[name]) ELSE Nothing

call_defaults_to_json(c) ==
    [start_with_audio |-> c.start_with_audio,
     start_with_video |-> c.start_with_video]
    @@ skip_if_none("display_name", c.display_name)

\* A serializer that leaves the primary flag out of a target.
target_to_json_without_primary(t) ==
    [id |-> quote(t.id), label |-> quote(t.label), code |-> quote(t.code),
     type |-> variant_to_json(t.target_type),
     call_defaults |-> call_defaults_to_json(t.call_defaults),
     created_at |-> quote(t.created_at)]
    @@ skip_if_none("notes", t.notes)

target_to_json(t) ==
    [id |-> quote(t.id), label |-> quote(t.label), code |-> quote(t.code),
     type |-> variant_to_json(t.target_type), is_primary |-> t.is_primary,
     call_defaults |-> call_defaults_to_json(t.call_defaults),
     created_at |-> quote(t.created_at)]
    @@ skip_if_none("notes", t.notes)

app_settings_to_json(a) ==
    [autostart |-> a.autostart, always_on_top |-> a.always_on_top,
     play_join_sound |-> a.play_join_sound,
     show_notifications |-> a.show_notifications,
     theme |-> variant_to_json(a.theme)]

keybinds_to_json(k) ==
    [join_primary |-> quote(k.join_primary), hangup |-> quote(k.hangup),
     target_hotkeys |-> [id \in DOMAIN k.target_hotkeys |->
                            quote(k.target_hotkeys[id])],
     toggle_mute |-> option_to_json(k.toggle_mute),
     toggle_video |-> option_to_json(k.toggle_video)]

\* serde_json::to_string_pretty(&settings)
to_json(s) ==
    [version |-> s.version,
     app_settings |-> app_settings_to_json(s.app_settings),
     keybinds |-> keybinds_to_json(s.keybinds),
     targets |-> [i \in 1..Len(s.targets) |-> target_to_json(s.targets[i])]]

call_defaults_from_json(d) ==
    [start_with_audio |-> field_or(d, "start_with_audio", TRUE),
     start_with_video |-> field_or(d, "start_with_video", TRUE),
     display_name |-> option_field(d, "display_name")]

target_parses(d) ==
    /\ {"id", "label", "code", "type", "call_defaults", "created_at"}
           \subseteq DOMAIN d
    /\ is_variant(TargetTypes, d.type)

target_from_json(d) ==
    [id |-> unquote(d.id), label |-> unquote(d.label), code |-> unquote(d.code),
     target_type |-> variant_from_json(TargetTypes, d.type),
     is_primary |-> field_or(d, "is_primary", FALSE),
     call_defaults |-> call_defaults_from_json(d.call_defaults),
     created_at |-> unquote(d.created_at),
     notes |-> option_field(d, "notes")]

app_settings_parses(d) == "theme" \in DOMAIN d => is_variant(Themes, d.theme)

app_settings_from_json(d) ==
    [autostart |-> field_or(d, "autostart", FALSE),
     always_on_top |-> field_or(d, "always_on_top", TRUE),
     play_join_sound |-> field_or(d, "play_join_sound", TRUE),
     show_notifications |-> field_or(d, "show_notifications", TRUE),
     theme |-> IF "theme" \in DOMAIN d
               THEN variant_from_json(Themes, d.theme) ELSE "System"]

keybinds_parses(d) == {"join_primary", "hangup"} \subseteq DOMAIN d

keybinds_from_json(d) ==
    [join_primary |-> unquote(d.join_primary), hangup |-> unquote(d.hangup),
     target_hotkeys |->
         IF "target_hotkeys" \in DOMAIN d
         THEN [id \in DOMAIN d.target_hotkeys |-> unquote(d.target_hotkeys[id])]
         ELSE <<>>,
     toggle_mute |-> option_field(d, "toggle_mute"),
     toggle_video |-> option_field(d, "toggle_video")]

\* serde_json::from_str::<Settings> succeeds on this document
settings_parses(d) ==
    /\ {"version", "app_settings", "keybinds", "targets"} \subseteq DOMAIN d
    /\ app_settings_parses(d.app_settings)
    /\ keybinds_parses(d.keybinds)
    /\ \A i \in 1..Len(d.targets) : target_parses(d.targets[i])

\* ... and the value it yields
from_json(d) ==
    [version |-> d.version,
     app_settings |-> app_settings_from_json(d.app_settings),
     keybinds |-> keybinds_from_json(d.keybinds),
     targets |-> [i \in 1..Len(d.targets) |-> target_from_json(d.targets[i])]]

\* --------------------------------------------------- hotkey strings
\* Hotkey strings of this model: two spellings of one key combination, a
\* second combination, strings that are no hotkey, and the empty string.
HotkeyStrings ==
    {"Ctrl+Shift+J", "Ctrl+Shift+j", "Ctrl+Shift+H", "Cmd+Opt+J", "Cmd+Opt+H",
     "NotAHotkey", ""}

\* hotkey.split('+')
split(h) ==
    CASE h = "Ctrl+Shift+J" -> <<"Ctrl", "Shift", "J">>
      [] h = "Ctrl+Shift+j" -> <<"Ctrl", "Shift", "j">>
      [] h = "Ctrl+Shift+H" -> <<"Ctrl", "Shift", "H">>
      [] h = "Cmd+Opt+J" -> <<"Cmd", "Opt", "J">>
      [] h = "Cmd+Opt+H" -> <<"Cmd", "Opt", "H">>
      [] h = "Cmd+Shift+J" -> <<"Cmd", "Shift", "J">>
      [] h = "Cmd+Shift+H" -> <<"Cmd", "Shift", "H">>
      [] h = "Ctrl+Alt+J" -> <<"Ctrl", "Alt", "J">>
      [] h = "Ctrl+Alt+H" -> <<"Ctrl", "Alt", "H">>
      [] OTHER -> <<h>>

\* token.to_uppercase()
to_uppercase(token) ==
    CASE token = "Ctrl" -> "CTRL"
      [] token = "Shift" -> "SHIFT"
      [] token = "Cmd" -> "CMD"
      [] token = "Opt" -> "OPT"
      [] token = "Alt" -> "ALT"
      [] token = "j" -> "J"
      [] token = "NotAHotkey" -> "NOTAHOTKEY"
      [] OTHER -> token

\* The modifier a token names, if it names one
modifier(token) ==
    CASE to_uppercase(token) \in {"CONTROL", "CTRL"} -> Some("CONTROL")
      [] to_uppercase(token) \in {"OPTION", "ALT"} -> Some("ALT")
      [] to_uppercase(token) \in {"COMMAND", "CMD", "SUPER"} -> Some("SUPER")
      [] to_uppercase(token) = "SHIFT" -> Some("SHIFT")
      [] OTHER -> Nothing

\* The key a token names, if it names one
parse_key(token) ==
    CASE to_uppercase(token) = "J" -> Some("KeyJ")
      [] to_uppercase(token) = "H" -> Some("KeyH")
      [] OTHER -> Nothing

\* hotkey.parse::<Shortcut>(): modifiers first, one key last; Some(shortcut)
\* or Nothing when the string is no hotkey
parse(h) ==
    LET tokens == split(h)
        n == Len(tokens)
    IN IF /\ parse_key(tokens[n]) # Nothing
          /\ \A i \in 1..(n - 1) : modifier(tokens[i]) # Nothing
       THEN Some([mods |-> {modifier(tokens[i])[1] : i \in 1..(n - 1)},
                  key |-> parse_key(tokens[n])[1]])
       ELSE Nothing

\* ------------------------------------------------ GlobalShortcutService
JoinPrimary == [kind |-> "JoinPrimary"]
Hangup == [kind |-> "Hangup"]
JoinTarget(id) == [kind |-> "JoinTarget", id |-> id]
NoAction == [kind |-> "None"]

\* HashMap::remove and HashMap::insert
without(map, key) == [k \in DOMAIN map \ {key} |-> map[k]]
with(map, key, value) == (key :> value) @@ map

\* What a registry method leaves behind: the map, the facility's listeners,
\* the value returned, and the number of facility calls that failed
Outcome(sc, fac, res, nfailed) ==
    [shortcuts |-> sc, facility |-> fac, result |-> res, failed |-> nfailed]

\* An unregister that drops the binding although the facility refused.
unregister_hotkey_forgets(sc, fac, h, ok) ==
    IF parse(h) = Nothing
    THEN Outcome(sc, fac, "Invalid hotkey format", 0)
    ELSE Outcome(without(sc, h),
                 IF ok THEN without(fac, parse(h)[1]) ELSE fac, Ok,
                 IF ok THEN 0 ELSE 1)

\* GlobalShortcutService::unregister_hotkey; ok is the outcome of the
\* facility's unregister
unregister_hotkey(sc, fac, h, ok) ==
    IF parse(h) = Nothing
    THEN Outcome(sc, fac, "Invalid hotkey format", 0)
    ELSE IF ~ok
         THEN Outcome(sc, fac, "Failed to unregister hotkey", 1)
         ELSE Outcome(without(sc, h), without(fac, parse(h)[1]), Ok, 0)

\* A register that keeps the listener of the earlier binding.
register_hotkey_keeps_old(sc, fac, h, action, unreg_ok, reg_ok) ==
    IF parse(h) = Nothing
    THEN Outcome(sc, fac, "Invalid hotkey format", 0)
    ELSE IF ~reg_ok
         THEN Outcome(sc, fac, "Failed to register hotkey", 1)
         ELSE Outcome(with(sc, h, action),
                      IF parse(h)[1] \in DOMAIN fac THEN fac
                      ELSE with(fac, parse(h)[1], action), Ok, 0)

\* GlobalShortcutService::register_hotkey; unreg_ok and reg_ok are the
\* outcomes of the facility's unregister and on_shortcut
register_hotkey(sc, fac, h, action, unreg_ok, reg_ok) ==
    IF parse(h) = Nothing
    THEN Outcome(sc, fac, "Invalid hotkey format", 0)
    ELSE LET u == IF h \in DOMAIN sc
                  THEN unregister_hotkey(sc, fac, h, unreg_ok)
                  ELSE Outcome(sc, fac, Ok, 0)
         IN IF u.result # Ok
            THEN u
            ELSE IF ~reg_ok
                 THEN Outcome(u.shortcuts, u.facility,
                              "Failed to register hotkey", 1)
                 ELSE Outcome(with(u.shortcuts, h, action),
                              with(u.facility, parse(h)[1], action), Ok, 0)

\* An unregister_all that stops at the first unregistration that fails.
unregister_all_gives_up(sc, fac, oks) ==
    IF \A h \in DOMAIN sc : oks[h]
    THEN Outcome(<<>>, [c \in DOMAIN fac \ {parse(h)[1] : h \in DOMAIN sc} |-> fac[c]],
                 Ok, 0)
    ELSE Outcome(sc, fac, "Failed to unregister hotkey", 1)

\* GlobalShortcutService::unregister_all; oks[h] is the outcome of the
\* facility's unregister for the key h
unregister_all(sc, fac, oks) ==
    LET gone == {parse(h)[1] : h \in {k \in DOMAIN sc : parse(k) # Nothing /\ oks[k]}}
    IN Outcome(<<>>, [c \in DOMAIN fac \ gone |-> fac[c]], Ok,
               Cardinality({h \in DOMAIN sc : ~oks[h]}))

\* Outcomes of the (up to four) facility calls of one setup_default_hotkeys:
\* all succeed, or one of them fails (the calls after a failure are not made)
FacilityOutcomes ==
    {[i \in 1..4 |-> i # k] : k \in 0..4}

\* A setup that attempts the hangup binding whatever became of join_primary.
setup_default_hotkeys_independent(sc, fac, kb, o) ==
    LET r1 == IF kb.join_primary # ""
              THEN register_hotkey(sc, fac, kb.join_primary, JoinPrimary, o[1], o[2])
              ELSE Outcome(sc, fac, Ok, 0)
        r2 == IF kb.hangup # ""
              THEN register_hotkey(r1.shortcuts, r1.facility, kb.hangup, Hangup,
                                   o[3], o[4])
              ELSE Outcome(r1.shortcuts, r1.facility, Ok, 0)
    IN Outcome(r2.shortcuts, r2.facility,
               IF r1.result # Ok THEN r1.result ELSE r2.result,
               r1.failed + r2.failed)

\* GlobalShortcutService::setup_default_hotkeys; o holds the outcomes of the
\* facility calls of the two registrations
setup_default_hotkeys(sc, fac, kb, o) ==
    LET r1 == IF kb.join_primary # ""
              THEN register_hotkey(sc, fac, kb.join_primary, JoinPrimary, o[1], o[2])
              ELSE Outcome(sc, fac, Ok, 0)
    IN IF r1.result # Ok
       THEN r1
       ELSE LET r2 == IF kb.hangup # ""
                      THEN register_hotkey(r1.shortcuts, r1.facility, kb.hangup,
                                           Hangup, o[3], o[4])
                      ELSE Outcome(r1.shortcuts, r1.facility, Ok, 0)
            IN Outcome(r2.shortcuts, r2.facility, r2.result, r1.failed + r2.failed)

\* An is_registered that compares key combinations.
is_registered_by_combination(sc, h) ==
    \E k \in DOMAIN sc : parse(k) # Nothing /\ parse(k) = parse(h)

\* GlobalShortcutService::is_registered: shortcuts.contains_key(hotkey)
is_registered(sc, h) == h \in DOMAIN sc

\* The last registry call: nothing called yet
NoCall == [op |-> None, hotkey |-> None, action |-> NoAction, result |-> Pending,
           failed |-> 0, answer |-> FALSE, shortcuts |-> <<>>, facility |-> <<>>]
NoCmd == [pc |-> "idle", value |-> <<>>, old_keybinds |-> DefaultKeybinds,
          new_settings |-> DefaultSettings, result |-> Pending]

\* AppState::settings_store, ::shortcuts and ::call_controller, all unlocked
NoLocks == [settings_store |-> NoThread, shortcuts |-> NoThread,
            call_controller |-> NoThread]

\* SettingsStore::get_target: the first target with this id, if any
get_target(id) ==
    IF \E i \in 1..Len(targets) : targets[i].id = id
    THEN targets[CHOOSE i \in 1..Len(targets) :
                    /\ targets[i].id = id
                    /\ \A j \in 1..(i - 1) : targets[j].id # id]
    ELSE None

\* An emit that drops the notification of the return to Idle.
emit_state_change_skips_idle(log, new_state) ==
    IF new_state = "Idle" THEN log ELSE Append(log, new_state)

\* CallController::emit_state_change: one "call-state-changed" event with the
\* new state as payload (the emit's own Result is discarded)
emit_state_change(log, new_state) == Append(log, new_state)

\* CallController::new, ConferenceWindow::new, and the settings as loaded
Init ==
    /\ state = "Idle"
    /\ state_lock = NoThread
    /\ current_target = None
    /\ target_lock = NoThread
    /\ window = FALSE
    /\ wm_conference = FALSE
    /\ targets \in InitialStores
    /\ emitted = <<>>
    /\ history = <<>>
    /\ open_calls = 0
    /\ close_calls = 0
    /\ pc = [t \in Threads |-> "idle"]
    /\ op = [t \in Threads |-> None]
    /\ arg = [t \in Threads |-> None]
    /\ current = [t \in Threads |-> None]
    /\ result = [t \in Threads |-> Pending]
    /\ pre = [t \in Threads |-> NoPre]
    /\ launch = [t \in Threads |-> None]
    /\ nops = 0
    /\ version = DefaultSettings.version
    /\ app_settings = DefaultSettings.app_settings
    /\ keybinds = DefaultSettings.keybinds
    /\ file = NoFile
    /\ temp = NoFile
    /\ dir_exists = TRUE
    /\ loaded = NotLoaded
    /\ reloaded = NotLoaded
    /\ store_pc = "idle"
    /\ store_op = None
    /\ store_arg = None
    /\ store_result = Pending
    /\ store_pre = NoStorePre
    /\ fs_log = <<>>
    /\ saved = Nothing
    /\ store_nops = 0
    /\ faults = 0
    /\ shortcuts = <<>>
    /\ facility = <<>>
    /\ hotkey_events = <<>>
    /\ meetings = <<>>
    /\ last_call = NoCall
    /\ dropped = FALSE
    /\ registry_nops = 0
    /\ cmd = [t \in Threads |-> NoCmd]
    /\ app_locks = NoLocks
    /\ target_os = "linux"
    /\ keybind_defaults = Nothing
    /\ sha256 = <<>>
    /\ rooms = <<>>

\* ---------------------------------------------------------------- helpers
Goto(t, label) == pc' = [pc EXCEPT ![t] = label]

\* A thread calls a method of the shared controller.
Enter(t, method, a, label) ==
    /\ pc[t] = "idle"
    /\ nops < MaxOps
    /\ nops' = nops + 1
    /\ op' = [op EXCEPT ![t] = method]
    /\ arg' = [arg EXCEPT ![t] = a]
    /\ Goto(t, label)
    /\ UNCHANGED <<ctrl_vars, win_vars, store_vars, app_vars, emitted, history,
                   current, result, pre, launch>>

\* let mut state = self.state.lock().unwrap(); (and the read of *state)
LockState(t, label) ==
    /\ state_lock = NoThread
    /\ state_lock' = t
    /\ current' = [current EXCEPT ![t] = state]
    /\ pre' = [pre EXCEPT ![t] =
                 [state |-> state, target |-> current_target,
                  nemit |-> Len(emitted), nhist |-> Len(history),
                  open_calls |-> open_calls, close_calls |-> close_calls]]
    /\ Goto(t, label)
    /\ UNCHANGED <<state, current_target, target_lock, win_vars, store_vars, app_vars,
                   emitted, history, op, arg, result, launch, nops>>

\* *state = value;
SetState(t, value, label) ==
    /\ state_lock = t
    /\ state' = value
    /\ history' = Append(history, value)
    /\ Goto(t, label)
    /\ UNCHANGED <<state_lock, current_target, target_lock, win_vars, store_vars, app_vars,
                   emitted, op, arg, current, result, pre, launch, nops>>

\* self.emit_state_change(value);
Emit(t, value, label) ==
    /\ emitted' = emit_state_change(emitted, value)
    /\ Goto(t, label)
    /\ UNCHANGED <<ctrl_vars, win_vars, store_vars, app_vars, history,
                   op, arg, current, result, pre, launch, nops>>

\* self.current_target.lock() of the statement *self.current_target.lock().unwrap() = v
LockTarget(t, label) ==
    /\ target_lock = NoThread
    /\ target_lock' = t
    /\ Goto(t, label)
    /\ UNCHANGED <<state, state_lock, current_target, win_vars, store_vars, app_vars, emitted,
                   history, op, arg, current, result, pre, launch, nops>>

\* ... the assignment through the guard, which is dropped at the end of the statement
StoreTarget(t, value, label) ==
    /\ target_lock = t
    /\ current_target' = value
    /\ target_lock' = NoThread
    /\ Goto(t, label)
    /\ UNCHANGED <<state, state_lock, win_vars, store_vars, app_vars, emitted,
                   history, op, arg, current, result, pre, launch, nops>>

\* The method's result is fixed and only the return is left.
Finish(t, value) ==
    /\ result' = [result EXCEPT ![t] = value]
    /\ Goto(t, "ret")

\* The method returns: the state guard is dropped and the frame is gone.
return(t) ==
    /\ pc[t] = "ret"
    /\ state_lock = t
    /\ state_lock' = NoThread
    /\ pc' = [pc EXCEPT ![t] = "idle"]
    /\ op' = [op EXCEPT ![t] = None]
    /\ arg' = [arg EXCEPT ![t] = None]
    /\ current' = [current EXCEPT ![t] = None]
    /\ result' = [result EXCEPT ![t] = Pending]
    /\ pre' = [pre EXCEPT ![t] = NoPre]
    /\ launch' = [launch EXCEPT ![t] = None]
    /\ UNCHANGED <<state, current_target, target_lock, win_vars, store_vars, app_vars,
                   emitted, history, nops>>


\* ------------------------------------------------------ ConferenceWindow
\* ConferenceWindow::open, as its caller sees it: Ok, or the error of the branch taken
\* (an existing "conference" window is reused; otherwise one is built)
open_result(exists, ok) ==
    IF ok THEN Ok
    ELSE IF exists THEN "Failed to emit to existing window"
    ELSE "Failed to create window"

\* ConferenceWindow::open: self.window is set on both successful paths only
open(t, ok) ==
    /\ open_calls' = open_calls + 1
    /\ window' = IF ok THEN TRUE ELSE window
    /\ wm_conference' = (wm_conference \/ ok)
    /\ launch' = [launch EXCEPT ![t] = IF ok THEN "ok" ELSE "failed"]
    /\ UNCHANGED close_calls

\* ConferenceWindow::close: takes self.window; a failed window.close() is only logged
close(closed) ==
    /\ close_calls' = close_calls + 1
    /\ window' = FALSE
    /\ wm_conference' = IF window /\ closed THEN FALSE ELSE wm_conference
    /\ UNCHANGED open_calls

\* ------------------------------------------------- CallController::join
call_join(t) ==
    /\ op[t] = None
    /\ \E target_id \in JoinIds : Enter(t, "join", target_id, "join_lock")

join_lock(t) ==
    /\ pc[t] = "join_lock"
    /\ LockState(t, "join_check")

\* A join that is also let through while a call is connecting.
join_rejects_only_in_call(cur) == cur \notin {"Idle", "Connecting"}

\* if !current.can_transition_to(CallState::Connecting)
join_rejects(cur) == ~can_transition_to(cur, "Connecting")

\* Err(format!("Cannot join while {}", current))
join_error(cur) == "Cannot join while " \o description(cur)

join_check(t) ==
    /\ pc[t] = "join_check"
    /\ IF join_rejects(current[t])
       THEN Finish(t, join_error(current[t]))
       ELSE Goto(t, "join_set") /\ UNCHANGED result
    /\ UNCHANGED <<ctrl_vars, win_vars, store_vars, app_vars, emitted, history,
                   op, arg, current, pre, launch, nops>>

join_set(t) ==
    /\ pc[t] = "join_set"
    /\ SetState(t, "Connecting", "join_emit")

join_emit(t) ==
    /\ pc[t] = "join_emit"
    /\ Emit(t, "Connecting", "join_target_lock")

join_target_lock(t) ==
    /\ pc[t] = "join_target_lock"
    /\ LockTarget(t, "join_store")

\* A join that forgets to record the target it is calling.
join_store_forgotten(t) ==
    /\ pc[t] = "join_store"
    /\ StoreTarget(t, current_target, "join_open")

\* *self.current_target.lock().unwrap() = Some(target_id);
join_store(t) ==
    /\ pc[t] = "join_store"
    /\ StoreTarget(t, arg[t], "join_open")

\* A join that undoes its transition when the window cannot be opened.
join_open_rollback(t) ==
    /\ pc[t] = "join_open"
    /\ \E ok \in BOOLEAN :
         /\ open(t, ok)
         /\ Finish(t, open_result(wm_conference, ok))
         /\ state' = IF ok THEN state ELSE "Idle"
         /\ current_target' = IF ok THEN current_target ELSE None
    /\ UNCHANGED <<state_lock, target_lock, store_vars, app_vars, emitted, history,
                   op, arg, current, pre, nops>>

\* window.open(config)?; Ok(())
join_open(t) ==
    /\ pc[t] = "join_open"
    /\ \E ok \in BOOLEAN :
         /\ open(t, ok)
         /\ Finish(t, open_result(wm_conference, ok))
    /\ UNCHANGED <<ctrl_vars, store_vars, app_vars, emitted, history, op, arg, current, pre, nops>>

\* ----------------------------------------------- CallController::hangup
call_hangup(t) ==
    /\ op[t] = None
    /\ Enter(t, "hangup", None, "hangup_lock")

hangup_lock(t) ==
    /\ pc[t] = "hangup_lock"
    /\ LockState(t, "hangup_check")

\* A hangup without the early return for Idle.
hangup_branch_no_idle_return(cur) ==
    IF ~can_transition_to(cur, "Disconnecting") THEN "reject" ELSE "proceed"

\* The two early returns of hangup, in the order the code tests them
hangup_branch(cur) ==
    IF cur = "Idle" THEN "nothing"
    ELSE IF ~can_transition_to(cur, "Disconnecting") THEN "reject"
    ELSE "proceed"

\* Err(format!("Cannot hangup while {}", current))
hangup_error(cur) == "Cannot hangup while " \o description(cur)

hangup_check(t) ==
    /\ pc[t] = "hangup_check"
    /\ CASE hangup_branch(current[t]) = "nothing" -> Finish(t, Ok)
         [] hangup_branch(current[t]) = "reject" ->
                Finish(t, hangup_error(current[t]))
         [] OTHER -> Goto(t, "hangup_set") /\ UNCHANGED result
    /\ UNCHANGED <<ctrl_vars, win_vars, store_vars, app_vars, emitted, history,
                   op, arg, current, pre, launch, nops>>

hangup_set(t) ==
    /\ pc[t] = "hangup_set"
    /\ SetState(t, "Disconnecting", "hangup_emit")

hangup_emit(t) ==
    /\ pc[t] = "hangup_emit"
    /\ Emit(t, "Disconnecting", "hangup_close")

\* window.close();
hangup_close(t) ==
    /\ pc[t] = "hangup_close"
    /\ \E closed \in BOOLEAN : close(closed)
    /\ Goto(t, "hangup_target_lock")
    /\ UNCHANGED <<ctrl_vars, store_vars, app_vars, emitted, history,
                   op, arg, current, result, pre, launch, nops>>

hangup_target_lock(t) ==
    /\ pc[t] = "hangup_target_lock"
    /\ LockTarget(t, "hangup_clear")

\* A hangup that leaves the target of the ended call in place.
hangup_clear_forgotten(t) ==
    /\ pc[t] = "hangup_clear"
    /\ StoreTarget(t, current_target, "hangup_idle")

\* *self.current_target.lock().unwrap() = None;
hangup_clear(t) ==
    /\ pc[t] = "hangup_clear"
    /\ StoreTarget(t, None, "hangup_idle")

hangup_idle(t) ==
    /\ pc[t] = "hangup_idle"
    /\ SetState(t, "Idle", "hangup_emit_idle")

hangup_emit_idle(t) ==
    /\ pc[t] = "hangup_emit_idle"
    /\ Emit(t, "Idle", "hangup_ok")

hangup_ok(t) ==
    /\ pc[t] = "hangup_ok"
    /\ Finish(t, Ok)
    /\ UNCHANGED <<ctrl_vars, win_vars, store_vars, app_vars, emitted, history,
                   op, arg, current, pre, launch, nops>>

\* --------------------------------- CallController::on_conference_joined
call_on_conference_joined(t) ==
    /\ op[t] = None
    /\ Enter(t, "on_conference_joined", None, "joined_lock")

joined_lock(t) ==
    /\ pc[t] = "joined_lock"
    /\ LockState(t, "joined_check")

\* A joined handler that promotes any busy state.
joined_applies_when_busy(s) == s # "Idle"

\* if *state == CallState::Connecting
joined_applies(s) == s = "Connecting"

joined_check(t) ==
    /\ pc[t] = "joined_check"
    /\ IF joined_applies(state)
       THEN Goto(t, "joined_set") /\ UNCHANGED result
       ELSE Finish(t, Ok)
    /\ UNCHANGED <<ctrl_vars, win_vars, store_vars, app_vars, emitted, history,
                   op, arg, current, pre, launch, nops>>

joined_set(t) ==
    /\ pc[t] = "joined_set"
    /\ SetState(t, "InCall", "joined_emit")

joined_emit(t) ==
    /\ pc[t] = "joined_emit"
    /\ Emit(t, "InCall", "joined_ok")

joined_ok(t) ==
    /\ pc[t] = "joined_ok"
    /\ Finish(t, Ok)
    /\ UNCHANGED <<ctrl_vars, win_vars, store_vars, app_vars, emitted, history,
                   op, arg, current, pre, launch, nops>>

\* ----------------------------------- CallController::on_conference_left
call_on_conference_left(t) ==
    /\ op[t] = None
    /\ Enter(t, "on_conference_left", None, "left_lock")

left_lock(t) ==
    /\ pc[t] = "left_lock"
    /\ LockState(t, "left_check")

\* A left handler that only ends an established call.
left_applies_in_call_only(s) == s = "InCall"

\* if *state != CallState::Idle
left_applies(s) == s # "Idle"

left_check(t) ==
    /\ pc[t] = "left_check"
    /\ IF left_applies(state)
       THEN Goto(t, "left_target_lock") /\ UNCHANGED result
       ELSE Finish(t, Ok)
    /\ UNCHANGED <<ctrl_vars, win_vars, store_vars, app_vars, emitted, history,
                   op, arg, current, pre, launch, nops>>

left_target_lock(t) ==
    /\ pc[t] = "left_target_lock"
    /\ LockTarget(t, "left_clear")

left_clear(t) ==
    /\ pc[t] = "left_clear"
    /\ StoreTarget(t, None, "left_set")

left_set(t) ==
    /\ pc[t] = "left_set"
    /\ SetState(t, "Idle", "left_emit")

left_emit(t) ==
    /\ pc[t] = "left_emit"
    /\ Emit(t, "Idle", "left_ok")

left_ok(t) ==
    /\ pc[t] = "left_ok"
    /\ Finish(t, Ok)
    /\ UNCHANGED <<ctrl_vars, win_vars, store_vars, app_vars, emitted, history,
                   op, arg, current, pre, launch, nops>>

\* ---------------------------------------------------------- specification
Next ==
    \E t \in Threads :
        \/ call_join(t)
        \/ join_lock(t)
        \/ join_check(t)
        \/ join_set(t)
        \/ join_emit(t)
        \/ join_target_lock(t)
        \/ join_store(t)
        \/ join_open(t)
        \/ call_hangup(t)
        \/ hangup_lock(t)
        \/ hangup_check(t)
        \/ hangup_set(t)
        \/ hangup_emit(t)
        \/ hangup_close(t)
        \/ hangup_target_lock(t)
        \/ hangup_clear(t)
        \/ hangup_idle(t)
        \/ hangup_emit_idle(t)
        \/ hangup_ok(t)
        \/ call_on_conference_joined(t)
        \/ joined_lock(t)
        \/ joined_check(t)
        \/ joined_set(t)
        \/ joined_emit(t)
        \/ joined_ok(t)
        \/ call_on_conference_left(t)
        \/ left_lock(t)
        \/ left_check(t)
        \/ left_target_lock(t)
        \/ left_clear(t)
        \/ left_set(t)
        \/ left_emit(t)
        \/ left_ok(t)
        \/ return(t)

Spec == Init /\ [][Next]_vars


\* ================================================================== claims
\* What the thread now inside a method has added to the logs since it took the guard.
EmittedSince(t) == SubSeq(emitted, pre[t].nemit + 1, Len(emitted))
WrittenSince(t) == SubSeq(history, pre[t].nhist + 1, Len(history))

\* Some target of the store has this id (get_target finds one).
InStore(id) == \E i \in 1..Len(targets) : targets[i].id = id

\* The thread is about to return from the method.
Returning(t, method) == pc[t] = "ret" /\ op[t] = method

\* Nothing the controller owns or drives has changed since the thread took the guard.
Untouched(t) ==
    /\ state = pre[t].state
    /\ current_target = pre[t].target
    /\ EmittedSince(t) = <<>>
    /\ WrittenSince(t) = <<>>
    /\ open_calls = pre[t].open_calls
    /\ close_calls = pre[t].close_calls

\* ------------------------------------------------------------------- C1
C1_ValidPairs ==
    { <<"Idle", "Connecting">>, <<"Connecting", "InCall">>,
      <<"Connecting", "Disconnecting">>, <<"InCall", "Disconnecting">>,
      <<"Disconnecting", "Idle">> }

\* C1: can_transition_to(from, next) is true for exactly the five pairs of the
\* transition table and false for the other eleven pairs of states, the four
\* self-pairs among them.
C1_TransitionTable ==
    /\ \A next \in CallStates :
          can_transition_to(state, next) <=> (<<state, next>> \in C1_ValidPairs)
    /\ \A from \in CallStates, next \in CallStates :
          can_transition_to(from, next) <=> (<<from, next>> \in C1_ValidPairs)
    /\ Cardinality({p \in CallStates \X CallStates :
                       ~can_transition_to(p[1], p[2])}) = 11
    /\ \A s \in CallStates : ~can_transition_to(s, s)

\* The predicate has been applied by the controller to a pair outside the table
\* (a join during a call) and the join was turned away.
C1_Witness ==
    \E t \in Threads :
        /\ Returning(t, "join")
        /\ current[t] = "InCall"
        /\ result[t] # Ok

\* ------------------------------------------------------------------- C2
\* C2: every change of the call state from s to s' made by a CallController
\* operation is a pair for which can_transition_to(s, s') is true.
C2_EveryChangeInTable ==
    [][state' # state => can_transition_to(state, state')]_vars

\* ------------------------------------------------------------------- C3
C3_StateName ==
    [Connecting |-> "connecting", InCall |-> "in call",
     Disconnecting |-> "disconnecting"]

C4_JoinThenSecondJoin ==
    \A t \in Threads :
        Returning(t, "join") =>
            /\ (pre[t].state = "Idle" /\ InStore(arg[t])
                    /\ launch[t] = "ok") =>
                  /\ result[t] = Ok
                  /\ state = "Connecting"
                  /\ current_target = arg[t]
                  /\ WrittenSince(t) = <<"Connecting">>
            /\ pre[t].state = "Connecting" =>
                  /\ result[t] = "Cannot join while connecting"
                  /\ state = "Connecting"
                  /\ current_target = pre[t].target
                  /\ current_target # None

\* A second join for another target returns while the first, launched, join of
\* a stored target is still connecting.
C4_Witness ==
    \E t \in Threads :
        /\ Returning(t, "join")
        /\ pre[t].state = "Connecting"
        /\ InStore(current_target)
        /\ arg[t] # current_target
        /\ window
        /\ Len(history) = 1

\* ------------------------------------------------------------------- C5
\* C5: join(target_id) for a target_id that no target of the store has fails,
\* and the state stays Idle, the active target stays unset and no
\* call-state-changed notification is emitted.
C5_UnknownTargetRejected ==
    \A t \in Threads :
        (Returning(t, "join") /\ pre[t].state = "Idle"
             /\ ~InStore(arg[t])) =>
            /\ result[t] # Ok
            /\ state = "Idle"
            /\ current_target = None
            /\ EmittedSince(t) = <<>>

\* ------------------------------------------------------------------- C6
\* C6: hangup called while the state is Idle returns success, leaves the state
\* Idle and the active target unset, emits nothing and does not call the
\* collaborator's close path.
C6_HangupWhenIdle ==
    \A t \in Threads :
        (op[t] = "hangup" /\ state_lock = t /\ pre[t].state = "Idle") =>
            /\ pc[t] \in {"hangup_check", "ret"}
            /\ Untouched(t)
            /\ state = "Idle"
            /\ current_target = None
            /\ pc[t] = "ret" => result[t] = Ok

\* A hangup returns in Idle after an earlier call has come and gone.
C6_Witness ==
    \E t \in Threads :
        /\ Returning(t, "hangup")
        /\ pre[t].state = "Idle"
        /\ Len(history) >= 2

\* ------------------------------------------------------------------- C7
\* C7: hangup called while the state is Connecting or InCall returns success,
\* takes the state to Disconnecting and then to Idle, emits exactly the two
\* notifications Disconnecting, Idle in that order, calls the collaborator's
\* close path once and ends with the active target cleared.
C7_HangupTearsDown ==
    \A t \in Threads :
        (Returning(t, "hangup") /\ pre[t].state \in {"Connecting", "InCall"}) =>
            /\ result[t] = Ok
            /\ WrittenSince(t) = <<"Disconnecting", "Idle">>
            /\ EmittedSince(t) = <<"Disconnecting", "Idle">>
            /\ state = "Idle"
            /\ close_calls = pre[t].close_calls + 1
            /\ open_calls = pre[t].open_calls
            /\ current_target = None
            /\ ~window

C7_Witness ==
    /\ \E t \in Threads :
          /\ Returning(t, "hangup")
          /\ pre[t].state = "InCall"
          /\ pre[t].target # None
    /\ history = <<"Connecting", "InCall", "Disconnecting", "Idle">>


\* ------------------------------------------------------------------- C8
\* C8: on_conference_joined sets the state to InCall and emits one notification
\* if and only if the state is Connecting; in Idle, InCall and Disconnecting it
\* changes neither the state nor the active target and emits nothing.
C8_JoinedOnlyFromConnecting ==
    /\ \A s \in {"Idle", "InCall", "Disconnecting"} : ~joined_applies(s)
    /\ \A t \in Threads :
          Returning(t, "on_conference_joined") =>
              /\ result[t] = Ok
              /\ current_target = pre[t].target
              /\ IF pre[t].state = "Connecting"
                 THEN /\ state = "InCall"
                      /\ WrittenSince(t) = <<"InCall">>
                      /\ EmittedSince(t) = <<"InCall">>
                 ELSE Untouched(t)

\* A second remote-joined event returns during the call the first one confirmed.
C8_Witness ==
    \E t \in Threads :
        /\ Returning(t, "on_conference_joined")
        /\ pre[t].state = "InCall"
        /\ emitted = <<"Connecting", "InCall">>

\* ------------------------------------------------------------------- C9
\* C9: on_conference_left called in any state other than Idle clears the active
\* target, sets the state to Idle and emits one notification carrying Idle;
\* called in Idle it changes nothing and emits nothing.
C9_LeftGoesIdle ==
    /\ \A s \in CallStates \ {"Idle"} : left_applies(s)
    /\ \A t \in Threads :
          Returning(t, "on_conference_left") =>
              /\ result[t] = Ok
              /\ IF pre[t].state # "Idle"
                 THEN /\ current_target = None
                      /\ state = "Idle"
                      /\ WrittenSince(t) = <<"Idle">>
                      /\ EmittedSince(t) = <<"Idle">>
                 ELSE Untouched(t)

\* A remote-left event returns after ending a call that was still connecting.
C9_Witness ==
    \E t \in Threads :
        /\ Returning(t, "on_conference_left")
        /\ pre[t].state = "Connecting"
        /\ pre[t].target # None
        /\ emitted = <<"Connecting", "Idle">>

\* ------------------------------------------------------------------ C10
\* C10: the payloads of the emitted call-state-changed notifications are, in
\* order, the values the state has taken after its initial Idle: a written
\* value is notified exactly once, next, before the writing operation returns,
\* and nothing is emitted that was not written.
C10_NotificationsFollowState ==
    /\ state = (IF history = <<>> THEN "Idle" ELSE history[Len(history)])
    /\ Len(emitted) <= Len(history)
    /\ Len(history) <= Len(emitted) + 1
    /\ emitted = SubSeq(history, 1, Len(emitted))
    /\ Len(history) > Len(emitted) =>
          \E t \in Threads :
              /\ state_lock = t
              /\ pc[t] \in {"join_emit", "hangup_emit", "hangup_emit_idle",
                            "joined_emit", "left_emit"}
    /\ (state_lock = NoThread \/ \E t \in Threads : pc[t] = "ret") =>
          emitted = history

\* A whole call, ended by the remote side, has been notified and no operation runs.
C10_Witness ==
    /\ state_lock = NoThread
    /\ \A t \in Threads : pc[t] = "idle"
    /\ emitted = <<"Connecting", "InCall", "Idle">>
    /\ history = emitted

\* ------------------------------------------------------------------ C11
\* C11: when join is called in state Idle and ConferenceWindow::open returns an
\* error, the transition is not rolled back: as join returns (with that error)
\* the state is Connecting and the active target is the requested target id.
C11_FailedLaunchKeepsTransition ==
    \A t \in Threads :
        (Returning(t, "join") /\ pre[t].state = "Idle" /\ launch[t] = "failed") =>
            /\ result[t] \in {"Failed to create window",
                              "Failed to emit to existing window"}
            /\ state = "Connecting"
            /\ current_target = arg[t]
            /\ WrittenSince(t) = <<"Connecting">>
            /\ EmittedSince(t) = <<"Connecting">>

C11_Witness ==
    \E t \in Threads :
        /\ Returning(t, "join")
        /\ pre[t].state = "Idle"
        /\ launch[t] = "failed"
        /\ ~window

\* ======================================================================
\* The settings store (src/storage/settings_store.rs) and its file
\* ======================================================================
MaxStoreOps == 3
MaxFaults == 1

\* A file-system call fails (a bounded number of times in a run).
Fault ==
    /\ faults < MaxFaults
    /\ faults' = faults + 1

\* n calls of the shortcut facility fail.
Charge(n) ==
    /\ faults + n <= MaxFaults
    /\ faults' = faults + n

\* A call of a registry method, as last_call records it: the method, its
\* arguments, what it returned, the number of facility calls that failed in
\* it, and the registry as it was before
Call(method, h, action, r, ans) ==
    [op |-> method, hotkey |-> h, action |-> action, result |-> r.result,
     failed |-> r.failed, answer |-> ans, shortcuts |-> shortcuts,
     facility |-> facility]

\* ... of setup_default_hotkeys(keybinds): hotkey and action hold the
\* join_primary and the hangup string of the keybinds
SetupCall(kb, r) ==
    Call("setup_default_hotkeys", kb.join_primary,
         [kind |-> "None", hangup |-> kb.hangup], r, FALSE)

\* SettingsStore.settings
settings ==
    [version |-> version, app_settings |-> app_settings,
     keybinds |-> keybinds, targets |-> targets]

\* Documents a settings file can hold before the program first saves one:
\* one written by an earlier version (optional fields missing), one with
\* every optional field set, and one that lacks required fields.
OldSchemaDoc ==
    [version |-> 1,
     app_settings |-> [autostart |-> TRUE, always_on_top |-> FALSE],
     keybinds |-> [join_primary |-> quote("Cmd+Opt+J"),
                   hangup |-> quote("Cmd+Opt+H")],
     targets |-> <<>>]
FullDoc ==
    [version |-> 1,
     app_settings |-> [autostart |-> FALSE, always_on_top |-> TRUE,
                       play_join_sound |-> FALSE, show_notifications |-> TRUE,
                       theme |-> quote("dark")],
     keybinds |-> [join_primary |-> quote("Cmd+Opt+J"),
                   hangup |-> quote("Cmd+Opt+H"),
                   target_hotkeys |-> ("target1" :> quote("Cmd+Opt+1")),
                   toggle_mute |-> quote("Cmd+Opt+M"),
                   toggle_video |-> "null"],
     targets |-> <<>>]
IncompleteDoc == [version |-> 1, targets |-> <<>>]

\* ... and one this program saved in an earlier run, holding two targets.
SavedDoc ==
    to_json([DefaultSettings EXCEPT
                !.targets = <<Target("target1", TRUE), Target("target2", FALSE)>>])

InitialFiles ==
    {NoFile, GarbageFile, JsonFile(IncompleteDoc), JsonFile(OldSchemaDoc),
     JsonFile(FullDoc), JsonFile(SavedDoc)}

\* Targets a caller hands to add_target
NewTargets ==
    { Target("target1", FALSE), Target("target2", FALSE),
      [Target("target3", TRUE) EXCEPT !.target_type = "Group",
                                      !.notes = Some("Work friend"),
                                      !.call_defaults.display_name = Some("Alice")] }

\* ... and to update_target
UpdatedTargets ==
    { [Target("target1", FALSE) EXCEPT !.label = "Updated Label"],
      [Target("target2", TRUE) EXCEPT !.label = "Updated Label"] }

\* Ids a caller hands to remove_target
RemoveIds == {"target1", "target2"}

has_primary(ts) == \E i \in 1..Len(ts) : ts[i].is_primary

\* SettingsStore::get_primary_target: the first target flagged primary
get_primary_target(ts) ==
    IF has_primary(ts)
    THEN Some(ts[CHOOSE i \in 1..Len(ts) :
                    /\ ts[i].is_primary
                    /\ \A j \in 1..(i - 1) : ~ts[j].is_primary])
    ELSE Nothing

\* add_target that stores the target as the caller flagged it.
push_target_as_given(ts, target) == Append(ts, target)

\* add_target, lines 131-136: the first target is made primary, then pushed
push_target(ts, target) ==
    Append(ts, IF ts = <<>> THEN [target EXCEPT !.is_primary = TRUE] ELSE target)

\* remove_target, line 147: targets.retain(|t| t.id != id)
retain(ts, id) == SelectSeq(ts, LAMBDA t : t.id # id)

\* remove_target, lines 151-154: with no primary left, the first becomes one
promote_first(ts) ==
    IF ts # <<>> /\ ~has_primary(ts)
    THEN [ts EXCEPT ![1].is_primary = TRUE]
    ELSE ts

\* A remove_target that takes the save branch whatever retain removed.
removed_anyway(initial_len, ts) == Len(ts) <= initial_len

\* remove_target, line 149: something was removed
removed(initial_len, ts) == Len(ts) < initial_len

\* update_target, line 168: position of the first target with this id (0: none)
find(ts, id) ==
    IF \E i \in 1..Len(ts) : ts[i].id = id
    THEN CHOOSE i \in 1..Len(ts) :
             /\ ts[i].id = id
             /\ \A j \in 1..(i - 1) : ts[j].id # id
    ELSE 0

\* An update that drops the old entry and appends the new one.
replace_target_at_end(ts, target) ==
    Append(SelectSeq(ts, LAMBDA t : t.id # target.id), target)

\* update_target, line 169: *existing = target
replace_target(ts, target) == [ts EXCEPT ![find(ts, target.id)] = target]

\* A load that falls back to the defaults when the file does not parse.
load_from_path_lenient(f, readable) ==
    IF f.kind = "json" /\ readable /\ settings_parses(f.doc)
    THEN [status |-> "Ok", settings |-> from_json(f.doc)]
    ELSE [status |-> "Ok", settings |-> DefaultSettings]

\* SettingsStore::load_from_path: what it returns for the file f;
\* readable is the outcome of fs::read_to_string
load_from_path(f, readable) ==
    IF f.kind # "absent"
    THEN IF ~readable
         THEN [status |-> "Err", error |-> "Failed to read settings"]
         ELSE IF f.kind = "json" /\ settings_parses(f.doc)
              THEN [status |-> "Ok", settings |-> from_json(f.doc)]
              ELSE [status |-> "Err", error |-> "Failed to parse settings"]
    ELSE [status |-> "Ok", settings |-> DefaultSettings]

ctrl_all == <<ctrl_vars, win_vars, thread_vars, emitted, history, nops>>

\* The program starts: nothing is loaded yet, the disk holds what an
\* earlier run (or the user) left there.
Boot ==
    /\ state = "Idle"
    /\ state_lock = NoThread
    /\ current_target = None
    /\ target_lock = NoThread
    /\ window = FALSE
    /\ wm_conference = FALSE
    /\ emitted = <<>>
    /\ history = <<>>
    /\ open_calls = 0
    /\ close_calls = 0
    /\ pc = [t \in Threads |-> "idle"]
    /\ op = [t \in Threads |-> None]
    /\ arg = [t \in Threads |-> None]
    /\ current = [t \in Threads |-> None]
    /\ result = [t \in Threads |-> Pending]
    /\ pre = [t \in Threads |-> NoPre]
    /\ launch = [t \in Threads |-> None]
    /\ nops = 0
    /\ targets = DefaultSettings.targets
    /\ version = DefaultSettings.version
    /\ app_settings = DefaultSettings.app_settings
    /\ keybinds = DefaultSettings.keybinds
    /\ file \in InitialFiles
    /\ temp = NoFile
    /\ dir_exists \in IF file = NoFile THEN BOOLEAN ELSE {TRUE}
    /\ loaded = NotLoaded
    /\ reloaded = NotLoaded
    /\ store_pc = "boot"
    /\ store_op = None
    /\ store_arg = None
    /\ store_result = Pending
    /\ store_pre = NoStorePre
    /\ fs_log = <<>>
    /\ saved = Nothing
    /\ store_nops = 0
    /\ faults = 0
    /\ shortcuts = <<>>
    /\ facility = <<>>
    /\ hotkey_events = <<>>
    /\ meetings = <<>>
    /\ last_call = NoCall
    /\ dropped = FALSE
    /\ registry_nops = 0
    /\ cmd = [t \in Threads |-> NoCmd]
    /\ app_locks = NoLocks
    /\ keybind_defaults = Nothing
    /\ sha256 = <<>>
    /\ rooms = <<>>

\* ... in a build for Linux
StoreInit ==
    /\ Boot
    /\ target_os = "linux"

\* lib.rs setup: SettingsStore::load()
load ==
    /\ store_pc = "boot"
    /\ \E readable \in BOOLEAN :
         /\ loaded' = load_from_path(file, readable)
         /\ IF readable \/ file = NoFile THEN UNCHANGED faults ELSE Fault
    /\ store_pc' = "loaded"
    /\ store_op' = "load"
    /\ store_pre' = [settings |-> settings, file |-> file, temp |-> temp]
    /\ UNCHANGED <<ctrl_all, app_vars, settings_vars, disk_vars, reloaded,
                   store_arg, store_result, fs_log, saved, store_nops>>

\* lib.rs setup: the loaded store, or a store of defaults when load failed;
\* then GlobalShortcutService::new and setup_default_hotkeys on its keybinds
setup ==
    /\ store_pc = "loaded"
    /\ LET s == IF loaded.status = "Ok" THEN loaded.settings ELSE DefaultSettings
       IN /\ version' = s.version
          /\ app_settings' = s.app_settings
          /\ keybinds' = s.keybinds
          /\ targets' = s.targets
          /\ \E r \in {setup_default_hotkeys(<<>>, <<>>, s.keybinds, o) :
                            o \in FacilityOutcomes} :
               /\ Charge(r.failed)
               /\ shortcuts' = r.shortcuts
               /\ facility' = r.facility
               /\ last_call' = SetupCall(s.keybinds, r)
    /\ store_pc' = "idle"
    /\ store_op' = None
    /\ store_pre' = NoStorePre
    /\ UNCHANGED <<ctrl_all, hotkey_events, meetings, dropped, app_locks, core_vars, registry_nops, cmd, disk_vars,
                   loaded, reloaded, store_arg, store_result, fs_log, saved,
                   store_nops>>

\* The owner of the store calls one of its methods.
StoreEnter(method, a) ==
    /\ store_nops < MaxStoreOps
    /\ store_nops' = store_nops + 1
    /\ store_op' = method
    /\ store_arg' = a
    /\ store_pre' = [settings |-> settings, file |-> file, temp |-> temp]

\* SettingsStore::load_from_path(file_path) on the path of the running store
call_load_from_path ==
    /\ store_pc = "idle"
    /\ StoreEnter("load_from_path", None)
    /\ \E readable \in BOOLEAN :
         /\ reloaded' = load_from_path(file, readable)
         /\ IF readable \/ file = NoFile THEN UNCHANGED faults ELSE Fault
         /\ store_result' = reloaded'.status
    /\ store_pc' = "ret"
    /\ UNCHANGED <<ctrl_all, app_vars, settings_vars, disk_vars, loaded, fs_log, saved>>

\* store.save()
call_save ==
    /\ store_pc = "idle"
    /\ StoreEnter("save", None)
    /\ store_pc' = "save_create_dir"
    /\ UNCHANGED <<ctrl_all, app_vars, settings_vars, disk_vars, loaded, reloaded, store_result,
                   fs_log, saved, faults>>

\* store.add_target(target), up to its call of save
call_add_target ==
    /\ store_pc = "idle"
    /\ \E target \in NewTargets :
         /\ StoreEnter("add_target", target)
         /\ targets' = push_target(targets, target)
    /\ store_pc' = "save_create_dir"
    /\ UNCHANGED <<ctrl_all, app_vars, version, app_settings, keybinds, disk_vars, loaded, reloaded,
                   store_result, fs_log, saved, faults>>

\* store.remove_target(id), up to its call of save or its Ok(false)
call_remove_target ==
    /\ store_pc = "idle"
    /\ \E id \in RemoveIds :
         /\ StoreEnter("remove_target", id)
         /\ IF removed(Len(targets), retain(targets, id))
            THEN /\ targets' = promote_first(retain(targets, id))
                 /\ store_pc' = "save_create_dir"
                 /\ UNCHANGED store_result
            ELSE /\ targets' = retain(targets, id)
                 /\ store_pc' = "ret"
                 /\ store_result' = "Ok(false)"
    /\ UNCHANGED <<ctrl_all, app_vars, version, app_settings, keybinds, disk_vars, loaded, reloaded,
                   fs_log, saved, faults>>

\* store.update_target(target), up to its call of save or its Ok(false)
call_update_target ==
    /\ store_pc = "idle"
    /\ \E target \in UpdatedTargets :
         /\ StoreEnter("update_target", target)
         /\ IF find(targets, target.id) # 0
            THEN /\ targets' = replace_target(targets, target)
                 /\ store_pc' = "save_create_dir"
                 /\ UNCHANGED store_result
            ELSE /\ store_pc' = "ret"
                 /\ store_result' = "Ok(false)"
                 /\ UNCHANGED targets
    /\ UNCHANGED <<ctrl_all, app_vars, version, app_settings, keybinds, disk_vars, loaded, reloaded,
                   fs_log, saved, faults>>

\* What the method returns once its save returned Ok(())
after_save == IF store_op \in {"remove_target", "update_target"}
              THEN "Ok(true)" ELSE "Ok(())"

\* A failed save that puts the settings back as they were before the call.
save_fails_rollback(error) ==
    /\ Fault
    /\ store_result' = error
    /\ store_pc' = "ret"
    /\ targets' = store_pre.settings.targets
    /\ UNCHANGED <<version, app_settings, keybinds>>

\* save()'s `?` on a failed file-system call: the error goes to the caller
\* of the method, the settings in memory stay as they are
save_fails(error) ==
    /\ Fault
    /\ store_result' = error
    /\ store_pc' = "ret"
    /\ UNCHANGED settings_vars

\* save, lines 88-91: fs::create_dir_all(parent)
save_create_dir ==
    /\ store_pc = "save_create_dir"
    /\ fs_log' = Append(fs_log, "create_dir_all")
    /\ \E ok \in BOOLEAN :
         IF ok
         THEN /\ dir_exists' = TRUE
              /\ store_pc' = "save_write"
              /\ UNCHANGED <<settings_vars, store_result, faults>>
         ELSE /\ save_fails("Failed to create directory")
              /\ UNCHANGED dir_exists
    /\ UNCHANGED <<ctrl_all, app_vars, file, temp, loaded, reloaded, store_op, store_arg, store_pre,
                   saved, store_nops>>

\* A save that writes the document straight into the settings file.
save_write_in_place ==
    /\ store_pc = "save_write"
    /\ fs_log' = Append(fs_log, "write")
    /\ file' = PartialFile(to_json(settings))
    /\ temp' = PartialFile(to_json(settings))
    /\ store_pc' = "save_write_all"
    /\ UNCHANGED <<settings_vars, store_result, faults>>
    /\ UNCHANGED <<ctrl_all, app_vars, dir_exists, loaded, reloaded, store_op, store_arg,
                   store_pre, saved, store_nops>>

\* save, lines 94-99: the settings are serialized and fs::write creates (or
\* truncates) the temporary file
save_write ==
    /\ store_pc = "save_write"
    /\ fs_log' = Append(fs_log, "write")
    /\ \E ok \in BOOLEAN :
         IF ok
         THEN /\ temp' = PartialFile(to_json(settings))
              /\ store_pc' = "save_write_all"
              /\ UNCHANGED <<settings_vars, store_result, faults>>
         ELSE /\ save_fails("Failed to write settings")
              /\ UNCHANGED temp
    /\ UNCHANGED <<ctrl_all, app_vars, file, dir_exists, loaded, reloaded, store_op, store_arg,
                   store_pre, saved, store_nops>>

\* save, line 99: fs::write writes the whole text into the temporary file
save_write_all ==
    /\ store_pc = "save_write_all"
    /\ \E ok \in BOOLEAN :
         IF ok
         THEN /\ temp' = JsonFile(to_json(settings))
              /\ store_pc' = "save_rename"
              /\ UNCHANGED <<settings_vars, store_result, faults>>
         ELSE /\ save_fails("Failed to write settings")
              /\ UNCHANGED temp
    /\ UNCHANGED <<ctrl_all, app_vars, file, dir_exists, loaded, reloaded, store_op, store_arg,
                   store_pre, fs_log, saved, store_nops>>

\* save, lines 102-105: fs::rename(temp_path, file_path), then Ok(())
save_rename ==
    /\ store_pc = "save_rename"
    /\ fs_log' = Append(fs_log, "rename")
    /\ \E ok \in BOOLEAN :
         IF ok
         THEN /\ file' = temp
              /\ temp' = NoFile
              /\ saved' = Some(settings)
              /\ store_result' = after_save
              /\ store_pc' = "ret"
              /\ UNCHANGED <<settings_vars, faults>>
         ELSE /\ save_fails("Failed to save settings")
              /\ UNCHANGED <<file, temp, saved>>
    /\ UNCHANGED <<ctrl_all, app_vars, dir_exists, loaded, reloaded, store_op, store_arg,
                   store_pre, store_nops>>

\* Values the frontend hands to the save_settings command: the defaults
\* with a target added, settings with the two hotkeys exchanged and a target
\* that is not flagged primary, and a value that is no Settings.
SettingsValues ==
    { to_json([DefaultSettings EXCEPT !.targets = <<Target("target1", TRUE)>>]),
      to_json([DefaultSettings EXCEPT !.keybinds.join_primary = "Ctrl+Shift+H",
                                      !.keybinds.hangup = "Ctrl+Shift+J",
                                      !.targets = <<Target("target1", FALSE)>>]),
      IncompleteDoc }

\* serde_json::from_value::<Settings>
from_value(value) ==
    IF settings_parses(value)
    THEN [status |-> "Ok", settings |-> from_json(value)]
    ELSE [status |-> "Err", settings |-> DefaultSettings]

\* save_settings, lines 26-33: the keybinds are read under the store's lock,
\* then the value is deserialized
cmd_save_settings(t) ==
    /\ cmd[t].pc = "idle"
    /\ store_pc = "idle"
    /\ app_locks.settings_store = NoThread
    /\ store_nops < MaxStoreOps
    /\ store_nops' = store_nops + 1
    /\ \E value \in SettingsValues :
         \E parsed \in {from_value(value)} :
            cmd' = [cmd EXCEPT ![t] =
                       [pc |-> IF parsed.status = "Err" THEN "ret"
                               ELSE IF keybinds # parsed.settings.keybinds
                                    THEN "hotkeys" ELSE "store",
                        value |-> value, old_keybinds |-> keybinds,
                        new_settings |-> parsed.settings,
                        result |-> IF parsed.status = "Err"
                                   THEN "Invalid settings format" ELSE Pending]]
    /\ UNCHANGED <<ctrl_all, shortcuts, facility, hotkey_events, meetings, last_call,
                   dropped, app_locks, core_vars, registry_nops, settings_vars, disk_vars, loaded, reloaded, store_pc,
                   store_op, store_arg, store_result, store_pre, fs_log, saved,
                   faults>>

\* save_settings, lines 36-51: under the registry's lock, unregister_all and
\* setup_default_hotkeys on the new keybinds; their errors are logged
cmd_update_hotkeys(t) ==
    /\ cmd[t].pc = "hotkeys"
    /\ app_locks.shortcuts = NoThread
    /\ cmd' = [cmd EXCEPT ![t].pc = "store"]
    /\ UNCHANGED <<ctrl_all, hotkey_events, meetings, dropped, app_locks, core_vars, registry_nops, settings_vars,
                   disk_vars, loaded, reloaded, store_pc, store_op, store_arg,
                   store_result, store_pre, fs_log, saved, store_nops>>
    /\ \E u \in {unregister_all(shortcuts, facility, oks) :
                     oks \in [DOMAIN shortcuts -> BOOLEAN]} :
         \E r \in {setup_default_hotkeys(u.shortcuts, u.facility,
                                         cmd[t].new_settings.keybinds, o) :
                       o \in FacilityOutcomes} :
            /\ Charge(u.failed + r.failed)
            /\ shortcuts' = r.shortcuts
            /\ facility' = r.facility
            /\ last_call' = SetupCall(cmd[t].new_settings.keybinds, r)

\* A save_settings that replaces the settings and returns without saving.
cmd_store_without_save(t) ==
    /\ cmd[t].pc = "store"
    /\ store_pc = "idle"
    /\ app_locks.settings_store = NoThread
    /\ app_locks' = [app_locks EXCEPT !.settings_store = t]
    /\ version' = cmd[t].new_settings.version
    /\ app_settings' = cmd[t].new_settings.app_settings
    /\ keybinds' = cmd[t].new_settings.keybinds
    /\ targets' = cmd[t].new_settings.targets
    /\ store_op' = "save_settings"
    /\ store_arg' = cmd[t].new_settings
    /\ store_pre' = [settings |-> settings, file |-> file, temp |-> temp]
    /\ store_pc' = "ret"
    /\ store_result' = "Ok(())"
    /\ cmd' = [cmd EXCEPT ![t].pc = "saving"]
    /\ UNCHANGED <<ctrl_all, shortcuts, facility, hotkey_events, meetings, last_call,
                   dropped, core_vars, registry_nops, disk_vars, loaded, reloaded, fs_log, saved, store_nops,
                   faults>>

\* save_settings, lines 54-58: under the store's lock the settings are
\* replaced, then store.save() runs
cmd_store(t) ==
    /\ cmd[t].pc = "store"
    /\ store_pc = "idle"
    /\ app_locks.settings_store = NoThread
    /\ app_locks' = [app_locks EXCEPT !.settings_store = t]
    /\ version' = cmd[t].new_settings.version
    /\ app_settings' = cmd[t].new_settings.app_settings
    /\ keybinds' = cmd[t].new_settings.keybinds
    /\ targets' = cmd[t].new_settings.targets
    /\ store_op' = "save_settings"
    /\ store_arg' = cmd[t].new_settings
    /\ store_pre' = [settings |-> settings, file |-> file, temp |-> temp]
    /\ store_pc' = "save_create_dir"
    /\ cmd' = [cmd EXCEPT ![t].pc = "saving"]
    /\ UNCHANGED <<ctrl_all, shortcuts, facility, hotkey_events, meetings, last_call,
                   dropped, core_vars, registry_nops, disk_vars, loaded, reloaded, store_result, fs_log,
                   saved, store_nops, faults>>

\* save_settings returns "Invalid settings format" (line 33)
cmd_return(t) ==
    /\ cmd[t].pc = "ret"
    /\ cmd' = [cmd EXCEPT ![t] = NoCmd]
    /\ UNCHANGED <<ctrl_all, shortcuts, facility, hotkey_events, meetings, last_call,
                   dropped, app_locks, core_vars, registry_nops, store_vars>>

\* The method returns to its caller (and with it the command that called
\* it, whose guard of the store is dropped).
store_return ==
    /\ store_pc = "ret"
    /\ store_pc' = "idle"
    /\ store_op' = None
    /\ store_arg' = None
    /\ store_result' = Pending
    /\ store_pre' = NoStorePre
    /\ reloaded' = NotLoaded
    /\ fs_log' = <<>>
    /\ cmd' = [t \in Threads |-> IF cmd[t].pc = "saving" THEN NoCmd ELSE cmd[t]]
    /\ last_call' = NoCall
    /\ app_locks' = [app_locks EXCEPT !.settings_store = NoThread]
    /\ UNCHANGED <<ctrl_all, shortcuts, facility, hotkey_events, meetings, dropped, core_vars, registry_nops,
                   settings_vars, disk_vars, loaded, saved, store_nops, faults>>

\* The process stops while a save is under way; the disk stays as it is.
crash ==
    /\ store_pc \in {"save_create_dir", "save_write", "save_write_all",
                     "save_rename"}
    /\ store_pc' = "crashed"
    /\ UNCHANGED <<ctrl_all, app_vars, settings_vars, disk_vars, loaded, reloaded, store_op,
                   store_arg, store_result, store_pre, fs_log, saved, store_nops,
                   faults>>

StoreNext ==
    \/ load
    \/ setup
    \/ call_load_from_path
    \/ call_save
    \/ call_add_target
    \/ call_remove_target
    \/ call_update_target
    \/ save_create_dir
    \/ save_write
    \/ save_write_all
    \/ save_rename
    \/ store_return
    \/ crash

SpecStore == StoreInit /\ [][StoreNext]_vars

\* The thread that runs the commands of the frontend, one after another
Frontend == 1

\* Number of commands and store methods run in SpecCommands
MaxCommandOps == 2

\* The store behind the commands of the frontend: the save_settings command
\* next to the methods that add, remove and update targets
CommandsNext ==
    \/ load
    \/ setup
    \/ (store_nops < MaxCommandOps /\ cmd_save_settings(Frontend))
    \/ cmd_update_hotkeys(Frontend)
    \/ cmd_store(Frontend)
    \/ cmd_return(Frontend)
    \/ (store_nops < MaxCommandOps /\ call_add_target)
    \/ (store_nops < MaxCommandOps /\ call_remove_target)
    \/ (store_nops < MaxCommandOps /\ call_update_target)
    \/ save_create_dir
    \/ save_write
    \/ save_write_all
    \/ save_rename
    \/ store_return

\* ... started on a first run (no settings file) or on the file of an
\* earlier run
CommandsInit ==
    /\ StoreInit
    /\ file \in {NoFile, JsonFile(SavedDoc)}

SpecCommands == CommandsInit /\ [][CommandsNext]_vars

\* The store driven by add_target and remove_target alone
AddRemoveNext ==
    \/ load
    \/ setup
    \/ call_add_target
    \/ call_remove_target
    \/ save_create_dir
    \/ save_write
    \/ save_write_all
    \/ save_rename
    \/ store_return

SpecAddRemove == StoreInit /\ [][AddRemoveNext]_vars

\* ---------------------------------------------------------------- claims
\* The store was set up with no targets: from a missing file, from a file
\* that failed to load, or from a document without targets.
StartedEmpty ==
    /\ store_pc \notin {"boot", "loaded"}
    /\ loaded.status = "Ok" => loaded.settings.targets = <<>>

\* The store method `method` has run to its return.
StoreReturning(method) == store_pc = "ret" /\ store_op = method

\* No method of the store is running.
AtRest == store_pc \in {"idle", "ret"}

Primaries(ts) == {i \in 1..Len(ts) : ts[i].is_primary}

\* C12: starting from an empty store, after any sequence of add_target and
\* remove_target calls with any primary flags the callers supply, a
\* non-empty collection has exactly one target flagged primary.
C12_ExactlyOnePrimary ==
    (AtRest /\ StartedEmpty /\ targets # <<>>) =>
        Cardinality(Primaries(targets)) = 1

\* C13: add_target on an empty store stores the target with is_primary true
\* whatever flag the caller supplied, and get_primary_target then returns it.
C13_FirstTargetBecomesPrimary ==
    (StoreReturning("add_target") /\ store_pre.settings.targets = <<>>) =>
        /\ Len(targets) = 1
        /\ targets[1] = [store_arg EXCEPT !.is_primary = TRUE]
        /\ get_primary_target(targets) = Some(targets[1])
C13_Witness ==
    /\ StoreReturning("add_target")
    /\ store_pre.settings.targets = <<>>
    /\ ~store_arg.is_primary
    /\ store_result = "Ok(())"

\* The target remove_target(id) took out was flagged primary.
RemovedPrimary ==
    \E i \in 1..Len(store_pre.settings.targets) :
        /\ store_pre.settings.targets[i].id = store_arg
        /\ store_pre.settings.targets[i].is_primary

\* C14: removing the primary target while other targets remain makes the
\* first remaining target the primary one.
C14_RemovingPrimaryPromotesFirst ==
    (/\ StoreReturning("remove_target")
     /\ store_result = "Ok(true)"
     /\ RemovedPrimary
     /\ targets # <<>>) =>
        /\ targets[1].is_primary
        /\ get_primary_target(targets) = Some(targets[1])

SaveCalls == <<"create_dir_all", "write", "rename">>
SaveErrors == {"Failed to create directory", "Failed to write settings",
               "Failed to save settings"}
Unchanged ==
    /\ settings = store_pre.settings
    /\ file = store_pre.file
    /\ temp = store_pre.temp
    /\ fs_log = <<>>

\* C15: remove_target with an id no target has returns false, leaves the
\* collection unchanged and does not write the file; it returns true, and
\* saves, only when something was removed.
C15_RemoveAbsentIsNoop ==
    StoreReturning("remove_target") =>
        LET present == \E i \in 1..Len(store_pre.settings.targets) :
                           store_pre.settings.targets[i].id = store_arg
        IN /\ ~present => store_result = "Ok(false)" /\ Unchanged
           /\ store_result = "Ok(true)" =>
                 /\ present
                 /\ fs_log = SaveCalls
                 /\ file = JsonFile(to_json(settings))
           /\ fs_log # <<>> => present
C15_Witness ==
    /\ StoreReturning("remove_target")
    /\ store_result = "Ok(false)"
    /\ targets # <<>>

\* C16: update_target(t) replaces the target whose id is t.id with t, keeping
\* its position and the other targets, saves, and reports success; when no
\* target has that id it reports not-found, changes nothing and does not
\* write.
C16_UpdateReplacesInPlace ==
    StoreReturning("update_target") =>
        LET old == store_pre.settings.targets
            at == {i \in 1..Len(old) : old[i].id = store_arg.id}
        IN IF at # {}
           THEN /\ Len(targets) = Len(old)
                /\ \E i \in at :
                     /\ \A j \in at : i <= j
                     /\ targets[i] = store_arg
                     /\ \A j \in 1..Len(old) : j # i => targets[j] = old[j]
                /\ fs_log # <<>>
                /\ store_result \in {"Ok(true)"} \cup SaveErrors
                /\ store_result = "Ok(true)" =>
                      fs_log = SaveCalls /\ file = JsonFile(to_json(settings))
           ELSE store_result = "Ok(false)" /\ Unchanged
C16_Witness ==
    /\ StoreReturning("update_target")
    /\ store_result = "Ok(true)"
    /\ Len(targets) = 2
    /\ targets[1] = store_arg
    /\ targets # store_pre.settings.targets

\* C17: when the save triggered by add_target, remove_target or update_target
\* fails, the operation returns the write error and the change it made in
\* memory stays; the save is not tried again.
C17_FailedSaveKeepsMutation ==
    (/\ store_pc = "ret"
     /\ store_op \in {"add_target", "remove_target", "update_target"}
     /\ store_result \notin {"Ok(())", "Ok(true)", "Ok(false)"}) =>
        LET old == store_pre.settings.targets
        IN /\ store_result \in SaveErrors
           /\ store_op = "add_target" =>
                 /\ Len(targets) = Len(old) + 1
                 /\ targets[Len(targets)].id = store_arg.id
                 /\ SubSeq(targets, 1, Len(old)) = old
           /\ store_op = "remove_target" =>
                 /\ Len(targets) < Len(old)
                 /\ \A i \in 1..Len(targets) : targets[i].id # store_arg
           /\ store_op = "update_target" =>
                 \E i \in 1..Len(targets) : targets[i] = store_arg
           /\ file = store_pre.file
           /\ (targets # old /\ file = JsonFile(to_json(store_pre.settings))) =>
                 file # JsonFile(to_json(settings))
           /\ fs_log \in {SubSeq(SaveCalls, 1, n) : n \in 1..3}
C17_Witness ==
    /\ StoreReturning("add_target")
    /\ store_result = "Failed to save settings"
    /\ store_pre.settings.targets # <<>>
    /\ file = JsonFile(to_json(store_pre.settings))
    /\ Len(targets) = Len(store_pre.settings.targets) + 1

\* C18: save is crash-atomic: whenever the process may die, the settings file
\* holds either the complete previous document or the complete new one, never
\* a truncated one; after a save that succeeded the temporary file is gone
\* and the settings file holds the new document.
C18_SaveIsCrashAtomic ==
    /\ file.kind # "partial"
    /\ store_op \in {"save", "add_target", "remove_target", "update_target"} =>
          \/ file = store_pre.file
          \/ file = JsonFile(to_json(settings))
    /\ (store_pc = "ret" /\ store_result \in {"Ok(())", "Ok(true)"}) =>
          /\ temp = NoFile
          /\ file = JsonFile(to_json(settings))
C18_Witness ==
    /\ store_pc = "crashed"
    /\ store_op = "add_target"
    /\ temp.kind = "partial"
    /\ file.kind = "json"
    /\ file = store_pre.file
    /\ file # JsonFile(to_json(settings))

\* What the load that has just run returned
LoadResult == IF store_pc = "loaded" THEN loaded ELSE reloaded
JustLoaded == store_pc = "loaded" \/ StoreReturning("load_from_path")

\* C19: load_from_path returns a store of default Settings (version 1, no
\* targets) and no error when the file does not exist; it returns an error,
\* not a store of defaults, when the file exists but cannot be parsed;
\* loading never modifies the file.
C19_LoadMissingOrUnparseable ==
    JustLoaded =>
        /\ file.kind = "absent" =>
              /\ LoadResult.status = "Ok"
              /\ LoadResult.settings = DefaultSettings
              /\ LoadResult.settings.version = 1
              /\ LoadResult.settings.targets = <<>>
        /\ (\/ file.kind \in {"garbage", "partial"}
            \/ /\ file.kind = "json"
               /\ ~({"version", "app_settings", "keybinds", "targets"}
                       \subseteq DOMAIN file.doc)) =>
              LoadResult.status = "Err"
        /\ file = store_pre.file
        /\ temp = store_pre.temp
        /\ fs_log = <<>>
C19_Witness ==
    /\ store_pc = "loaded"
    /\ file = JsonFile(IncompleteDoc)
    /\ loaded = [status |-> "Err", error |-> "Failed to parse settings"]

\* C20: saving settings s and then loading from the same path yields a
\* Settings value equal to s.
C20_SaveLoadRoundTrip ==
    /\ store_pc = "ret" =>
          /\ settings_parses(to_json(settings))
          /\ from_json(to_json(settings)) = settings
    /\ (StoreReturning("load_from_path") /\ saved # Nothing) =>
          IF reloaded.status = "Ok"
          THEN reloaded.settings = saved[1]
          ELSE reloaded.error = "Failed to read settings"
C20_Witness ==
    /\ StoreReturning("load_from_path")
    /\ saved # Nothing
    /\ reloaded.status = "Ok"
    /\ reloaded.settings = settings
    /\ has_primary(settings.targets)
    /\ \E i \in 1..Len(targets) : targets[i].notes # Nothing
    /\ settings.app_settings # DefaultAppSettings

\* The method or command `method` has returned success.
Succeeded(method) ==
    /\ StoreReturning(method)
    /\ store_result \in {"Ok(())", "Ok(true)"}

\* C21: whenever add_target, remove_target returning true, update_target
\* returning true, or the save_settings command returns success, the document
\* in the settings file is the serialization of the settings in memory (and
\* reads back as them).
C21_SuccessMeansPersisted ==
    (\E method \in {"add_target", "remove_target", "update_target", "save_settings"} :
        Succeeded(method)) =>
        /\ file = JsonFile(to_json(settings))
        /\ load_from_path(file, TRUE) = [status |-> "Ok", settings |-> settings]

\* save_settings has returned success after it replaced settings that
\* differed from the ones on disk.
C21_Witness ==
    /\ Succeeded("save_settings")
    /\ store_pre.settings # settings
    /\ store_pre.file # file
    /\ file = JsonFile(to_json(settings))

\* ======================================================================
\* The hotkey registry (src-tauri/src/services/global_shortcuts.rs), the
\* key presses the shortcut facility delivers, and the listener of the
\* "hotkey-pressed" event (src-tauri/src/lib.rs)
\* ======================================================================
MaxRegistryOps == 2

\* Hotkey strings and actions the callers of the registry hand to it
HotkeyInputs == {"Ctrl+Shift+J", "Ctrl+Shift+j", "Ctrl+Shift+H", "NotAHotkey"}
ActionInputs == {JoinPrimary, Hangup, JoinTarget("target2")}

\* Keybinds handed to setup_default_hotkeys: the defaults, a join hotkey that
\* is no hotkey, and an empty join hotkey
KeybindInputs ==
    { DefaultKeybinds,
      [DefaultKeybinds EXCEPT !.join_primary = "NotAHotkey"],
      [DefaultKeybinds EXCEPT !.join_primary = ""] }

\* Outcomes of the (up to two) facility calls of one register_hotkey: both
\* succeed, or one of them fails
RegisterOutcomes == {<<TRUE, TRUE>>, <<FALSE, TRUE>>, <<TRUE, FALSE>>}

\* A caller that has taken the registry's lock calls one of its methods.
RegistryEnter ==
    /\ store_pc \notin {"boot", "loaded"}
    /\ app_locks.shortcuts = NoThread
    /\ ~dropped
    /\ registry_nops < MaxRegistryOps
    /\ registry_nops' = registry_nops + 1

\* What a registry method leaves behind
RegistryLeave(r) ==
    /\ Charge(r.failed)
    /\ shortcuts' = r.shortcuts
    /\ facility' = r.facility

registry_frame == <<ctrl_all, settings_vars, disk_vars, loaded, reloaded, store_pc,
                    store_op, store_arg, store_result, store_pre, fs_log, saved,
                    store_nops, hotkey_events, meetings, cmd, app_locks, core_vars>>

\* shortcuts.register_hotkey(hotkey, action)
call_register_hotkey ==
    /\ RegistryEnter
    /\ \E h \in HotkeyInputs, a \in ActionInputs :
         \E r \in {register_hotkey(shortcuts, facility, h, a, o[1], o[2]) :
                       o \in RegisterOutcomes} :
            /\ RegistryLeave(r)
            /\ last_call' = Call("register_hotkey", h, a, r, FALSE)
    /\ UNCHANGED <<registry_frame, dropped>>

\* shortcuts.unregister_hotkey(hotkey)
call_unregister_hotkey ==
    /\ RegistryEnter
    /\ \E h \in HotkeyInputs :
         \E r \in {unregister_hotkey(shortcuts, facility, h, ok) : ok \in BOOLEAN} :
            /\ RegistryLeave(r)
            /\ last_call' = Call("unregister_hotkey", h, NoAction, r, FALSE)
    /\ UNCHANGED <<registry_frame, dropped>>

\* shortcuts.unregister_all()
call_unregister_all ==
    /\ RegistryEnter
    /\ \E r \in {unregister_all(shortcuts, facility, oks) :
                   oks \in [DOMAIN shortcuts -> BOOLEAN]} :
         /\ RegistryLeave(r)
         /\ last_call' = Call("unregister_all", None, NoAction, r, FALSE)
    /\ UNCHANGED <<registry_frame, dropped>>

\* shortcuts.setup_default_hotkeys(keybinds); last_call.hotkey and
\* last_call.action hold the join_primary and the hangup string handed in
call_setup_default_hotkeys ==
    /\ RegistryEnter
    /\ \E kb \in KeybindInputs :
         \E r \in {setup_default_hotkeys(shortcuts, facility, kb, o) :
                       o \in FacilityOutcomes} :
            /\ RegistryLeave(r)
            /\ last_call' = SetupCall(kb, r)
    /\ UNCHANGED <<registry_frame, dropped>>

\* shortcuts.is_registered(hotkey)
call_is_registered ==
    /\ RegistryEnter
    /\ \E h \in HotkeyInputs :
         last_call' = Call("is_registered", h, NoAction,
                           Outcome(shortcuts, facility, Ok, 0),
                           is_registered(shortcuts, h))
    /\ UNCHANGED <<registry_frame, dropped, shortcuts, facility, faults>>

\* The validate_hotkey command: Ok(!shortcuts.is_registered(&hotkey))
cmd_validate_hotkey ==
    /\ RegistryEnter
    /\ \E h \in HotkeyInputs :
         last_call' = Call("validate_hotkey", h, NoAction,
                           Outcome(shortcuts, facility, Ok, 0),
                           ~is_registered(shortcuts, h))
    /\ UNCHANGED <<registry_frame, dropped, shortcuts, facility, faults>>

\* Drop for GlobalShortcutService: let _ = self.unregister_all()
drop ==
    /\ store_pc = "idle"
    /\ app_locks.shortcuts = NoThread
    /\ ~dropped
    /\ dropped' = TRUE
    /\ \E r \in {unregister_all(shortcuts, facility, oks) :
                   oks \in [DOMAIN shortcuts -> BOOLEAN]} :
         /\ RegistryLeave(r)
         /\ last_call' = Call("drop", None, NoAction, r, FALSE)
    /\ UNCHANGED <<registry_frame, registry_nops>>

\* The user presses a key combination that has a live listener: the closure
\* of register_hotkey (lines 69-89) emits "hotkey-pressed" with its action
press ==
    /\ store_pc \notin {"boot", "loaded"}
    /\ registry_nops < MaxRegistryOps
    /\ registry_nops' = registry_nops + 1
    /\ \E c \in DOMAIN facility :
         hotkey_events' = Append(hotkey_events, [combo |-> c, action |-> facility[c]])
    /\ UNCHANGED <<ctrl_all, store_vars, shortcuts, facility, meetings, last_call,
                   dropped, app_locks, core_vars, cmd>>

\* The target whose meeting the listener asks the browser to open, if any
meeting_target(action) ==
    CASE action.kind = "JoinPrimary" ->
             IF get_primary_target(targets) # Nothing
             THEN Some(get_primary_target(targets)[1].id) ELSE Nothing
      [] action.kind = "JoinTarget" ->
             IF find(targets, action.id) # 0
             THEN Some(targets[find(targets, action.id)].id) ELSE Nothing
      [] OTHER -> Nothing

\* lib.rs, the "hotkey-pressed" listener, on the oldest event not yet
\* handled: a join action looks the target up under the store's lock and
\* opens its meeting in the browser (a failure is logged); Hangup is logged
on_hotkey_pressed ==
    /\ store_pc = "idle"
    /\ app_locks.settings_store = NoThread
    /\ Len(meetings) < Len(hotkey_events)
    /\ LET event == hotkey_events[Len(meetings) + 1]
       IN \E ok \in BOOLEAN :
            /\ IF ok \/ meeting_target(event.action) = Nothing
               THEN UNCHANGED faults ELSE Fault
            /\ meetings' = Append(meetings,
                    [action |-> event.action,
                     opened |-> IF ok THEN meeting_target(event.action)
                                ELSE Nothing])
    /\ UNCHANGED <<ctrl_all, settings_vars, disk_vars, loaded, reloaded, store_pc,
                   store_op, store_arg, store_result, store_pre, fs_log, saved,
                   store_nops, shortcuts, facility, hotkey_events, last_call,
                   dropped, app_locks, core_vars, registry_nops, cmd>>

\* The test_hotkey command, lines 77-80: under the registry's lock,
\* register_hotkey(hotkey, JoinPrimary)?; an error returns it to the caller
cmd_test_hotkey(t) ==
    /\ cmd[t].pc = "idle"
    /\ RegistryEnter
    /\ \E h \in HotkeyInputs :
         \E r \in {register_hotkey(shortcuts, facility, h, JoinPrimary, o[1], o[2]) :
                       o \in RegisterOutcomes} :
            /\ RegistryLeave(r)
            /\ IF r.result = Ok
               THEN /\ last_call' = Call("register_hotkey", h, JoinPrimary, r, FALSE)
                    /\ cmd' = [cmd EXCEPT ![t] = [NoCmd EXCEPT !.pc = "test_unregister",
                                                               !.value = h]]
                    /\ app_locks' = [app_locks EXCEPT !.shortcuts = t]
               ELSE /\ last_call' = Call("test_hotkey", h, JoinPrimary, r, FALSE)
                    /\ UNCHANGED <<cmd, app_locks>>
    /\ UNCHANGED <<ctrl_all, settings_vars, disk_vars, loaded, reloaded, store_pc,
                   store_op, store_arg, store_result, store_pre, fs_log, saved,
                   store_nops, hotkey_events, meetings, dropped, core_vars>>

\* test_hotkey, lines 83-85: unregister_hotkey(hotkey)?; Ok(()); the lock is
\* released on return. last_call keeps the registry as it was before the
\* command.
cmd_test_unregister(t) ==
    /\ cmd[t].pc = "test_unregister"
    /\ app_locks.shortcuts = t
    /\ \E r \in {unregister_hotkey(shortcuts, facility, cmd[t].value, ok) :
                   ok \in BOOLEAN} :
         /\ RegistryLeave(r)
         /\ last_call' = [Call("test_hotkey", cmd[t].value, JoinPrimary, r, FALSE)
                             EXCEPT !.shortcuts = last_call.shortcuts,
                                    !.facility = last_call.facility]
    /\ cmd' = [cmd EXCEPT ![t] = NoCmd]
    /\ app_locks' = [app_locks EXCEPT !.shortcuts = NoThread]
    /\ UNCHANGED <<ctrl_all, settings_vars, disk_vars, loaded, reloaded, store_pc,
                   store_op, store_arg, store_result, store_pre, fs_log, saved,
                   store_nops, hotkey_events, meetings, dropped, registry_nops,
                   core_vars>>

HotkeysNext ==
    \/ load
    \/ setup
    \/ call_register_hotkey
    \/ call_unregister_hotkey
    \/ call_unregister_all
    \/ call_setup_default_hotkeys
    \/ call_is_registered
    \/ cmd_validate_hotkey
    \/ cmd_test_hotkey(Frontend)
    \/ cmd_test_unregister(Frontend)
    \/ drop
    \/ press
    \/ on_hotkey_pressed

\* The program starts on the settings file of an earlier run, or on one
\* written by an earlier version of the program.
HotkeysInit ==
    /\ StoreInit
    /\ file \in {JsonFile(SavedDoc), JsonFile(OldSchemaDoc)}

SpecHotkeys == HotkeysInit /\ [][HotkeysNext]_vars

\* ---------------------------------------------------------------- claims
\* The last registry call registered, with success, a string that was
\* registered already.
ReRegistered ==
    /\ last_call.op = "register_hotkey"
    /\ last_call.result = Ok
    /\ last_call.hotkey \in DOMAIN last_call.shortcuts

\* This step is a press of the key combination the hotkey string h denotes.
Pressed(h) ==
    /\ Len(hotkey_events') = Len(hotkey_events) + 1
    /\ hotkey_events'[Len(hotkey_events')].combo = parse(h)[1]

\* C22: after register_hotkey(h, a1) followed by register_hotkey(h, a2) the
\* registry holds one binding for h, to a2, and each press of the key
\* combination of h emits exactly one hotkey-pressed event, carrying a2.
C22_ReRegisterReplaces ==
    [][ReRegistered =>
           /\ shortcuts[last_call.hotkey] = last_call.action
           /\ Pressed(last_call.hotkey) =>
                  hotkey_events' = Append(hotkey_events,
                                          [combo |-> parse(last_call.hotkey)[1],
                                           action |-> last_call.action])]_vars

\* A string bound to one action was registered to another, and the key
\* combination was pressed after that.
C22_Witness ==
    /\ ReRegistered
    /\ last_call.shortcuts[last_call.hotkey] # last_call.action
    /\ hotkey_events # <<>>
    /\ hotkey_events[Len(hotkey_events)] =
           [combo |-> parse(last_call.hotkey)[1], action |-> last_call.action]

\* C23: unregister_hotkey fails only when the string cannot be parsed as a
\* hotkey; for a well-formed string that is not registered it succeeds and
\* leaves the bindings as they were.
C23_UnregisterFailsOnlyOnParse ==
    last_call.op = "unregister_hotkey" =>
        /\ last_call.result # Ok => parse(last_call.hotkey) = Nothing
        /\ (/\ parse(last_call.hotkey) # Nothing
            /\ last_call.hotkey \notin DOMAIN last_call.shortcuts) =>
               /\ last_call.result = Ok
               /\ shortcuts = last_call.shortcuts

\* Key combinations of the strings a registry map holds
Combos(sc) == {parse(h)[1] : h \in {k \in DOMAIN sc : parse(k) # Nothing}}

\* C24: unregister_all returns success whatever the facility answers; every
\* binding held at the call is attempted (a listener of one of them is still
\* live only where its unregistration failed), and the registry holds no
\* binding afterwards: is_registered is false for every string.
C24_UnregisterAllCompletes ==
    last_call.op = "unregister_all" =>
        /\ last_call.result = Ok
        /\ shortcuts = <<>>
        /\ \A h \in HotkeyStrings : ~is_registered(shortcuts, h)
        /\ Cardinality(DOMAIN facility \cap Combos(last_call.shortcuts))
              <= last_call.failed

\* unregister_all was called on two bindings; one unregistration failed, the
\* other binding's listener is gone.
C24_Witness ==
    /\ last_call.op = "unregister_all"
    /\ last_call.result = Ok
    /\ Cardinality(DOMAIN last_call.shortcuts) = 2
    /\ last_call.failed = 1
    /\ Cardinality(DOMAIN facility) = 1
    /\ shortcuts = <<>>

\* C25: after the registry is dropped, no listener it registered is still
\* live in the shortcut facility.
C25_DropLeavesNoListener ==
    dropped => facility = <<>>

\* The binding h -> action is held by the registry and live in the facility.
Bound(h, action) ==
    /\ h \in DOMAIN shortcuts
    /\ shortcuts[h] = action
    /\ parse(h)[1] \in DOMAIN facility
    /\ facility[parse(h)[1]] = action

\* C26: setup_default_hotkeys attempts the two bindings independently: when
\* the non-empty join_primary string cannot be registered, a valid hangup
\* string still ends up registered to Hangup; an empty join_primary string is
\* skipped without error. (Stated for calls in which no facility call failed.)
C26_SetupAttemptsBoth ==
    (/\ last_call.op = "setup_default_hotkeys"
     /\ last_call.failed = 0
     /\ parse(last_call.action.hangup) # Nothing) =>
        /\ (last_call.hotkey # "" /\ parse(last_call.hotkey) = Nothing) =>
               Bound(last_call.action.hangup, Hangup)
        /\ last_call.hotkey = "" =>
               /\ last_call.result = Ok
               /\ Bound(last_call.action.hangup, Hangup)

\* Some string the map held at the last call denotes the key combination of h.
CombinationInUse(h) ==
    \E k \in DOMAIN last_call.shortcuts :
        parse(k) # Nothing /\ parse(k) = parse(h)

\* C27: is_registered(h) answers true, and validate_hotkey(h) false,
\* whenever a registered string denotes the same key combination as h, also
\* when the two differ in the case of the key token.
C27_ConflictByCombination ==
    /\ (last_call.op = "is_registered" /\ CombinationInUse(last_call.hotkey)) =>
           last_call.answer = TRUE
    /\ (last_call.op = "validate_hotkey" /\ CombinationInUse(last_call.hotkey)) =>
           last_call.answer = FALSE

\* Meetings the listener has opened, and transitions to Connecting made
Launches == {i \in 1..Len(meetings) : meetings[i].opened # Nothing}
Connects == {i \in 1..Len(history) : history[i] = "Connecting"}

\* C28: a fired join hotkey launches its meeting only as part of a
\* successful Idle -> Connecting transition of the call state machine: every
\* meeting opened has its transition to Connecting, so of two join firings
\* with no hangup or remote-left event between them only one opens a meeting.
C28_JoinHotkeyThroughStateMachine ==
    Cardinality(Launches) <= Cardinality(Connects)

\* C29: starting from an empty store, after any sequence of add_target,
\* update_target and remove_target calls no two targets have the same id.
C29_TargetIdsUnique ==
    (AtRest /\ StartedEmpty) =>
        \A i, j \in 1..Len(targets) : targets[i].id = targets[j].id => i = j

\* C30: once the call state is Connecting it stays Connecting until a
\* remote-joined event moves it to InCall or hangup moves it on to
\* Disconnecting: no other operation takes the call out of Connecting.
C30_ConnectingUntilHangup ==
    [][(state = "Connecting" /\ state' # "Connecting") =>
          \E t \in Threads :
             \/ op[t] = "on_conference_joined" /\ state' = "InCall"
             \/ op[t] = "hangup" /\ state' = "Disconnecting"]_vars

\* ======================================================================
\* Room ids (src/core/room.rs) and the platform's default hotkeys
\* (src/core/platform.rs)
\* ======================================================================
MaxCodeLen == 2

\* Pairing codes: a string is the sequence of its characters
CodeChars == {"a", "b", "-"}
Codes == UNION {[1..n -> CodeChars] : n \in 0..MaxCodeLen}

\* str::replace(from, ""): every occurrence of the character is removed
replace(s, from) == SelectSeq(s, LAMBDA c : c # from)

\* A derivation that hashes the code as it was typed.
clean_code_verbatim(code) == code

\* room_id_from_code, line 31: let clean_code = code.replace('-', "")
clean_code(code) == replace(code, "-")

\* b"justcall-v1|"
DomainSeparator == <<"j", "u", "s", "t", "c", "a", "l", "l", "-", "v", "1", "|">>

\* hasher.update(bytes): the bytes are appended to the message
update(message, bytes) == message \o bytes

\* The message room_id_from_code hands to the hasher (lines 34-36)
hashed(code) == update(update(<<>>, DomainSeparator), clean_code(code))

\* Values of hasher.finalize(): Sha256 is taken as an arbitrary function
\* from messages to 32 bytes, fixed once a message has been hashed
Digests ==
    { [i \in 1..32 |-> 0], [i \in 1..32 |-> (i * 37) % 256] }

\* data_encoding::BASE32_NOPAD: the RFC 4648 alphabet, five bits a symbol,
\* most significant bit first, the last symbol filled with zero bits
Base32Symbols ==
    <<"A", "B", "C", "D", "E", "F", "G", "H", "I", "J", "K", "L", "M", "N", "O", "P",
      "Q", "R", "S", "T", "U", "V", "W", "X", "Y", "Z", "2", "3", "4", "5", "6", "7">>
bit(bytes, j) ==
    IF j \div 8 < Len(bytes)
    THEN (bytes[(j \div 8) + 1] \div (2 ^ (7 - (j % 8)))) % 2
    ELSE 0
encode(bytes) ==
    [k \in 1..((8 * Len(bytes) + 4) \div 5) |->
        Base32Symbols[1 + 16 * bit(bytes, 5 * (k - 1)) + 8 * bit(bytes, 5 * (k - 1) + 1)
                        + 4 * bit(bytes, 5 * (k - 1) + 2)
                        + 2 * bit(bytes, 5 * (k - 1) + 3) + bit(bytes, 5 * (k - 1) + 4)]]

\* str::to_lowercase on a string of base32 symbols
to_lowercase(s) ==
    LET lower == <<"a", "b", "c", "d", "e", "f", "g", "h", "i", "j", "k", "l", "m",
                   "n", "o", "p", "q", "r", "s", "t", "u", "v", "w", "x", "y", "z",
                   "2", "3", "4", "5", "6", "7">>
    IN [i \in 1..Len(s) |-> lower[CHOOSE n \in 1..32 : Base32Symbols[n] = s[i]]]

\* room_id_from_code(code); hasher maps a message to its digest
room_id_from_code(code, hasher) ==
    LET hash_result == hasher[hashed(code)]
        encoded == to_lowercase(encode(hash_result))
    IN <<"j", "c", "-">> \o SubSeq(encoded, 1, 16)

\* Some caller derives the room id of a code (the model follows two calls).
call_room_id_from_code ==
    /\ Len(rooms) < 2
    /\ \E code \in Codes :
         \E digest \in IF hashed(code) \in DOMAIN sha256
                       THEN {sha256[hashed(code)]} ELSE Digests :
            /\ sha256' = with(sha256, hashed(code), digest)
            /\ rooms' = Append(rooms, [code |-> code,
                                       room |-> room_id_from_code(code, sha256')])
    /\ UNCHANGED <<ctrl_all, store_vars, shortcuts, facility, hotkey_events, meetings,
                   last_call, dropped, registry_nops, cmd, app_locks, target_os,
                   keybind_defaults>>

\* Some caller asks for the platform's default hotkeys.
call_get_default_keybinds ==
    /\ keybind_defaults' = Some(get_default_keybinds_on(target_os))
    /\ UNCHANGED <<ctrl_all, store_vars, shortcuts, facility, hotkey_events, meetings,
                   last_call, dropped, registry_nops, cmd, app_locks, target_os,
                   sha256, rooms>>

CoreNext ==
    \/ call_room_id_from_code
    \/ call_get_default_keybinds

\* The program as built for any of the targets
CoreInit ==
    /\ Boot
    /\ file = NoFile
    /\ dir_exists
    /\ target_os \in TargetOses

SpecCore == CoreInit /\ [][CoreNext]_vars

\* ---------------------------------------------------------------- claims
\* The code with every '-' left out.
Undashed(code) == SelectSeq(code, LAMBDA c : c # "-")

\* C31: room_id_from_code is deterministic and ignores dashes: two calls with
\* the same code return the same room id, a code and the same code without
\* its '-' characters have the same room id, and every room id is "jc-"
\* followed by 16 symbols (19 characters), also for the empty code.
C31_RoomIdIgnoresDashes ==
    \A i, j \in 1..Len(rooms) :
        /\ rooms[i].code = rooms[j].code => rooms[i].room = rooms[j].room
        /\ rooms[j].code = Undashed(rooms[i].code) => rooms[i].room = rooms[j].room
        /\ Len(rooms[i].room) = 19
        /\ SubSeq(rooms[i].room, 1, 3) = <<"j", "c", "-">>

\* The room ids of a code holding a dash and of the same code without it
\* have been derived, and they are the same 19 characters.
C31_Witness ==
    /\ Len(rooms) = 2
    /\ rooms[1].code # rooms[2].code
    /\ rooms[2].code = Undashed(rooms[1].code)
    /\ rooms[1].room = rooms[2].room
    /\ Len(rooms[2].room) = 19

Digits == {"1", "2", "3", "4", "5", "6", "7", "8", "9"}

\* C32: get_default_keybinds returns join_primary "Ctrl+Alt+J" on Windows and
\* Linux (modifiers Ctrl, then Alt) and "Cmd+Opt+J" on macOS (modifiers Cmd,
\* then Opt); on every platform join_primary differs from hangup and neither
\* is join_target_prefix followed by a digit 1 to 9.
C32_DefaultKeybinds ==
    keybind_defaults # Nothing =>
        LET defaults == keybind_defaults[1]
        IN /\ target_os \in {"windows", "linux"} =>
                 /\ defaults.join_primary = "Ctrl+Alt+J"
                 /\ SubSeq(split(defaults.join_primary), 1, 2) = <<"Ctrl", "Alt">>
           /\ target_os = "macos" =>
                 /\ defaults.join_primary = "Cmd+Opt+J"
                 /\ SubSeq(split(defaults.join_primary), 1, 2) = <<"Cmd", "Opt">>
           /\ defaults.join_primary # defaults.hangup
           /\ \A d \in Digits :
                 defaults.join_target_prefix \o d
                     \notin {defaults.join_primary, defaults.hangup}

\* ----------------------------------- claims on the controller's concurrency
\* C33: no CallController operation holds the call-state lock across a
\* blocking call: in no reachable state does a thread hold the guard of the
\* state mutex while it is in ConferenceWindow::open or ConferenceWindow::close
\* (so that a reader of the state never waits for a blocking call).
C33_NoBlockingCallUnderStateLock ==
    \A t \in Threads :
        state_lock = t => pc[t] \notin {"join_open", "hangup_close"}

\* What a method leaves behind when it runs alone from call state s and
\* active target tg: the state, the target, and whether it returns Ok
Sequential(method, s, tg, a, launched) ==
    CASE method = "join" ->
             IF s = "Idle"
             THEN [state |-> "Connecting", target |-> a, ok |-> launched]
             ELSE [state |-> s, target |-> tg, ok |-> FALSE]
      [] method = "hangup" ->
             IF s \in {"Connecting", "InCall"}
             THEN [state |-> "Idle", target |-> None, ok |-> TRUE]
             ELSE [state |-> s, target |-> tg, ok |-> s = "Idle"]
      [] method = "on_conference_joined" ->
             [state |-> IF s = "Connecting" THEN "InCall" ELSE s,
              target |-> tg, ok |-> TRUE]
      [] method = "on_conference_left" ->
             [state |-> "Idle", target |-> IF s = "Idle" THEN tg ELSE None,
              ok |-> TRUE]

\* The call that thread t is returning from has had the effect of the method
\* run alone, at the moment the thread took the state guard.
Linearized(t) ==
    pc[t] = "ret" =>
        [state |-> state, target |-> current_target, ok |-> result[t] = Ok]
            = Sequential(op[t], pre[t].state, pre[t].target, arg[t], launch[t] = "ok")

\* Thread t returns from a join that found the state Idle while thread u is
\* in a join call of its own, waiting for the state guard.
RacingJoins(t, u) ==
    /\ t # u
    /\ Returning(t, "join")
    /\ pre[t].state = "Idle"
    /\ op[u] = "join"
    /\ pc[u] = "join_lock"

\* Thread u returns from a join that found the state Connecting.
LostRace(u) == Returning(u, "join") /\ pre[u].state = "Connecting"

\* C34 as stated: the operations are mutually exclusive, every interleaving
\* has the outcome of some sequential order, and of two concurrent join calls
\* issued in state Idle exactly one succeeds while the other fails with the
\* state left Connecting.
C34_ExactlyOneJoinSucceeds ==
    /\ Cardinality({t \in Threads : pc[t] \notin {"idle", "join_lock", "hangup_lock",
                                                   "joined_lock", "left_lock"}}) <= 1
    /\ \A t \in Threads : Linearized(t)
    /\ \A t, u \in Threads : RacingJoins(t, u) => result[t] = Ok
    /\ \A u \in Threads :
          LostRace(u) => result[u] = join_error("Connecting") /\ state = "Connecting"

\* C34, amended: ... of two concurrent join calls issued in state Idle exactly
\* one makes the transition to Connecting, and it returns Ok if and only if
\* the conference window could be opened; the other fails with "Cannot join
\* while connecting" and leaves the state Connecting.
C34_Linearizable ==
    /\ Cardinality({t \in Threads : pc[t] \notin {"idle", "join_lock", "hangup_lock",
                                                   "joined_lock", "left_lock"}}) <= 1
    /\ \A t \in Threads : Linearized(t)
    /\ \A t, u \in Threads :
          RacingJoins(t, u) =>
              /\ state = "Connecting"
              /\ current_target = arg[t]
              /\ result[t] = Ok <=> launch[t] = "ok"
    /\ \A u \in Threads :
          LostRace(u) =>
              /\ result[u] = join_error("Connecting")
              /\ state = "Connecting"
              /\ Untouched(u)

\* Two join calls were made from Idle and nothing else: one has made the
\* transition, the other is returning its error.
C34_Witness ==
    \E u \in Threads :
        /\ LostRace(u)
        /\ nops = 2
        /\ history = <<"Connecting">>
        /\ result[u] = join_error("Connecting")
        /\ current_target # arg[u]

\* C35: whenever no CallController operation is in progress, the active
\* target is set if and only if the call state is Connecting or InCall, and
\* the call state is not Disconnecting.
C35_TargetIffInCall ==
    (\A t \in Threads : pc[t] = "idle") =>
        /\ current_target # None <=> state \in {"Connecting", "InCall"}
        /\ state # "Disconnecting"

\* A call was joined, established and hung up, and one was joined after it;
\* no operation is in progress.
C35_Witness ==
    /\ \A t \in Threads : pc[t] = "idle"
    /\ history = <<"Connecting", "InCall", "Disconnecting", "Idle", "Connecting">>
    /\ current_target # None

\* ------------------------------------------- claims on the primary target
\* At most one target is flagged primary, and exactly one if there is any.
PrimaryInvariant(ts) ==
    /\ Cardinality(Primaries(ts)) <= 1
    /\ ts # <<>> => Cardinality(Primaries(ts)) = 1

\* C36: update_target and the save_settings command keep the primary
\* invariant: called on a collection with at most one primary target (exactly
\* one if it is non-empty), they leave a collection of which the same holds.
C36_UpdateAndSaveKeepPrimary ==
    \A method \in {"update_target", "save_settings"} :
        (StoreReturning(method) /\ PrimaryInvariant(store_pre.settings.targets)) =>
            PrimaryInvariant(targets)

\* --------------------------------------- claims on test_hotkey and register
\* C37: the test_hotkey command leaves the registry as it found it: for every
\* well-formed hotkey string, also one that is bound to an action already,
\* the bindings after the command has returned are those before the call.
\* (Stated for runs in which no call of the shortcut facility has failed.)
C37_TestHotkeyLeavesRegistry ==
    (/\ last_call.op = "test_hotkey"
     /\ parse(last_call.hotkey) # Nothing
     /\ faults = 0) =>
        shortcuts = last_call.shortcuts

\* C38: a failed register_hotkey leaves the registry unchanged: when it
\* returns an error the bindings of the registry and the listeners live in
\* the shortcut facility are those before the call; a binding held for the
\* string before is still registered with its action.
C38_FailedRegisterChangesNothing ==
    (last_call.op = "register_hotkey" /\ last_call.result # Ok) =>
        /\ shortcuts = last_call.shortcuts
        /\ facility = last_call.facility

\* ======================================================================
\* save_settings commands running side by side (tauri runs an async
\* command on a thread of its runtime, so two calls overlap)
\* ======================================================================
SavesNext ==
    \/ load
    \/ setup
    \/ \E t \in Threads :
          \/ (store_nops < MaxCommandOps /\ cmd_save_settings(t))
          \/ cmd_update_hotkeys(t)
          \/ cmd_store(t)
          \/ cmd_return(t)
    \/ save_create_dir
    \/ save_write
    \/ save_write_all
    \/ save_rename
    \/ store_return

SpecSaves == CommandsInit /\ [][SavesNext]_vars

\* The bindings setup_default_hotkeys makes for these keybinds
BindingsOf(kb) == (kb.join_primary :> JoinPrimary) @@ (kb.hangup :> Hangup)

\* C39: under any interleaving of concurrent save_settings calls in which
\* every hotkey registration and unregistration succeeds, once all calls have
\* returned the registry binds the join_primary string of the stored keybinds
\* to JoinPrimary, the stored hangup string to Hangup, and nothing else.
\* (Stated for runs in which no facility call and no file-system call failed.)
C39_RegistryFollowsStore ==
    (/\ store_pc = "idle"
     /\ \A t \in Threads : cmd[t].pc = "idle"
     /\ faults = 0) =>
        shortcuts = BindingsOf(keybinds)
\* ---------------------------------------------------------------------------
\* The locks of the application: AppState's mutexes around the settings
\* store, the shortcut registry and the call controller (state.rs), and the
\* controller's own mutexes around its state and its current target
\* (call_controller.rs 28-40).  Commands and event listeners run on their own
\* threads; a thread runs one of them at a time.
\* ---------------------------------------------------------------------------
MaxLockOps == 2

LockNames == {"settings_store", "shortcuts", "call_controller", "state", "current_target"}

\* The thread whose guard of the lock is alive
Holder(l) ==
    CASE l = "state" -> state_lock
      [] l = "current_target" -> target_lock
      [] OTHER -> app_locks[l]

Holds(t) == {l \in LockNames : Holder(l) = t}

\* The lock the thread's next statement is a lock() of
Wants(t) ==
    CASE pc[t] \in {"join_lock", "hangup_lock", "joined_lock", "left_lock"} -> "state"
      [] pc[t] \in {"join_target_lock", "hangup_target_lock", "left_target_lock"} ->
             "current_target"
      [] cmd[t].pc = "hotkeys" -> "shortcuts"
      [] cmd[t].pc = "store" -> "settings_store"
      [] OTHER -> None

Blocked(t) == Wants(t) \in LockNames /\ Holder(Wants(t)) # NoThread

\* A set of threads each waiting for a lock held inside the set
Deadlocked ==
    \E S \in (SUBSET Threads) \ {{}} :
       \A t \in S : Blocked(t) /\ Holder(Wants(t)) \in S

\* The thread is inside a command, a listener or a controller method
Busy(t) == pc[t] # "idle" \/ cmd[t].pc # "idle"

Started == nops + store_nops + registry_nops

\* The application has started, the thread is free, and the run has room.
CanStart(t) ==
    /\ store_pc \notin {"boot", "loaded"}
    /\ pc[t] = "idle"
    /\ cmd[t].pc = "idle"
    /\ Started < MaxLockOps

\* commands::get_settings: lock the store ...
cmd_get_settings(t) ==
    /\ cmd[t].pc = "idle"
    /\ store_pc = "idle"
    /\ app_locks.settings_store = NoThread
    /\ store_nops < MaxStoreOps
    /\ store_nops' = store_nops + 1
    /\ app_locks' = [app_locks EXCEPT !.settings_store = t]
    /\ cmd' = [cmd EXCEPT ![t].pc = "get_settings"]
    /\ UNCHANGED <<ctrl_all, shortcuts, facility, hotkey_events, meetings, last_call,
                   dropped, core_vars, registry_nops, settings_vars, disk_vars, loaded,
                   reloaded, store_pc, store_op, store_arg, store_result, store_pre,
                   fs_log, saved, faults>>

\* A get_settings that locks the store a second time, its first guard alive.
cmd_get_settings_relocks(t) ==
    /\ cmd[t].pc = "get_settings"
    /\ app_locks.settings_store = NoThread
    /\ app_locks' = [app_locks EXCEPT !.settings_store = NoThread]
    /\ cmd' = [cmd EXCEPT ![t].pc = "ret", ![t].value = to_json(settings),
                          ![t].result = Ok]
    /\ UNCHANGED <<ctrl_all, shortcuts, facility, hotkey_events, meetings, last_call,
                   dropped, core_vars, registry_nops, store_vars>>

\* ... and return its settings as a JSON value; the guard is dropped at the return.
cmd_get_settings_return(t) ==
    /\ cmd[t].pc = "get_settings"
    /\ app_locks.settings_store = t
    /\ app_locks' = [app_locks EXCEPT !.settings_store = NoThread]
    /\ cmd' = [cmd EXCEPT ![t].pc = "ret", ![t].value = to_json(settings),
                          ![t].result = Ok]
    /\ UNCHANGED <<ctrl_all, shortcuts, facility, hotkey_events, meetings, last_call,
                   dropped, core_vars, registry_nops, store_vars>>

\* commands::remove_target: lock the store and call its remove_target, whose
\* save runs under the guard; store_return drops it.
cmd_remove_target(t) ==
    /\ cmd[t].pc = "idle"
    /\ store_pc = "idle"
    /\ app_locks.settings_store = NoThread
    /\ app_locks' = [app_locks EXCEPT !.settings_store = t]
    /\ cmd' = [cmd EXCEPT ![t].pc = "saving"]
    /\ \E id \in RemoveIds :
         /\ StoreEnter("remove_target", id)
         /\ IF removed(Len(targets), retain(targets, id))
            THEN /\ targets' = promote_first(retain(targets, id))
                 /\ store_pc' = "save_create_dir"
                 /\ UNCHANGED store_result
            ELSE /\ targets' = retain(targets, id)
                 /\ store_pc' = "ret"
                 /\ store_result' = "Ok(false)"
    /\ UNCHANGED <<ctrl_all, shortcuts, facility, hotkey_events, meetings, last_call,
                   dropped, core_vars, registry_nops, version, app_settings, keybinds,
                   disk_vars, loaded, reloaded, fs_log, saved, faults>>

\* The listeners of videoConferenceJoined and videoConferenceLeft: lock the
\* controller and call its method under the guard.
on_video_conference(t, method, label) ==
    /\ cmd[t].pc = "idle"
    /\ app_locks.call_controller = NoThread
    /\ app_locks' = [app_locks EXCEPT !.call_controller = t]
    /\ cmd' = [cmd EXCEPT ![t].pc = "listener"]
    /\ nops < MaxOps
    /\ nops' = nops + 1
    /\ op' = [op EXCEPT ![t] = method]
    /\ arg' = [arg EXCEPT ![t] = None]
    /\ Goto(t, label)
    /\ UNCHANGED <<ctrl_vars, win_vars, store_vars, shortcuts, facility, hotkey_events,
                   meetings, last_call, dropped, registry_nops, core_vars, emitted,
                   history, current, result, pre, launch>>

on_video_conference_joined(t) ==
    /\ pc[t] = "idle"
    /\ on_video_conference(t, "on_conference_joined", "joined_lock")

on_video_conference_left(t) ==
    /\ pc[t] = "idle"
    /\ on_video_conference(t, "on_conference_left", "left_lock")

\* The method has returned (its result is ignored): the listener's guard of
\* the controller is dropped.
on_video_conference_return(t) ==
    /\ cmd[t].pc = "listener"
    /\ pc[t] = "idle"
    /\ app_locks.call_controller = t
    /\ app_locks' = [app_locks EXCEPT !.call_controller = NoThread]
    /\ cmd' = [cmd EXCEPT ![t] = NoCmd]
    /\ UNCHANGED <<ctrl_all, shortcuts, facility, hotkey_events, meetings, last_call,
                   dropped, core_vars, registry_nops, store_vars>>

\* A frontend call, a key press or a conference event starts an operation.
LocksStart ==
    \/ \E t \in Threads :
          \/ (CanStart(t) /\ cmd_get_settings(t))
          \/ (CanStart(t) /\ cmd_save_settings(t))
          \/ (CanStart(t) /\ cmd_test_hotkey(t))
          \/ (CanStart(t) /\ cmd_remove_target(t))
          \/ (CanStart(t) /\ on_video_conference_joined(t))
          \/ (CanStart(t) /\ on_video_conference_left(t))
          \/ (CanStart(t) /\ call_join(t))
          \/ (CanStart(t) /\ call_hangup(t))
    \/ (Started < MaxLockOps /\ cmd_validate_hotkey)
    \/ (Started < MaxLockOps /\ press)

\* The steps of thread t inside the operation it has started
Step(t) ==
    \/ cmd_get_settings_return(t)
    \/ cmd_update_hotkeys(t)
    \/ cmd_store(t)
    \/ cmd_return(t)
    \/ cmd_test_unregister(t)
    \/ on_video_conference_return(t)
    \/ join_lock(t)
    \/ join_check(t)
    \/ join_set(t)
    \/ join_emit(t)
    \/ join_target_lock(t)
    \/ join_store(t)
    \/ join_open(t)
    \/ hangup_lock(t)
    \/ hangup_check(t)
    \/ hangup_set(t)
    \/ hangup_emit(t)
    \/ hangup_close(t)
    \/ hangup_target_lock(t)
    \/ hangup_clear(t)
    \/ hangup_idle(t)
    \/ hangup_emit_idle(t)
    \/ hangup_ok(t)
    \/ joined_lock(t)
    \/ joined_check(t)
    \/ joined_set(t)
    \/ joined_emit(t)
    \/ joined_ok(t)
    \/ left_lock(t)
    \/ left_check(t)
    \/ left_target_lock(t)
    \/ left_clear(t)
    \/ left_set(t)
    \/ left_emit(t)
    \/ left_ok(t)
    \/ return(t)

\* The application starts: it loads the settings and registers the hotkeys.
Startup ==
    \/ load
    \/ setup

\* The steps of the store's save, taken by the thread that called it; with
\* the hotkey listener handling a queued event, the steps nobody has to start
StoreSave ==
    \/ save_create_dir
    \/ save_write
    \/ save_write_all
    \/ save_rename
    \/ store_return

StoreStep == on_hotkey_pressed \/ StoreSave

LocksProgress == StoreStep \/ \E t \in Threads : Step(t)

LocksNext == Startup \/ LocksStart \/ LocksProgress

LocksInit ==
    /\ StoreInit
    /\ file = JsonFile(SavedDoc)

\* Threads are scheduled: while an operation in flight can take a step, one
\* is eventually taken.  Nothing obliges anyone to start the application or
\* an operation.
SpecLocks == LocksInit /\ [][LocksNext]_vars /\ WF_vars(LocksProgress)

\* The thread is inside an operation, waits for no lock, and has no step
Stuck(t) ==
    /\ Busy(t)
    /\ ~Blocked(t)
    /\ ~ENABLED Step(t)
    /\ ~(app_locks.settings_store = t /\ ENABLED StoreSave)

\* C40: under any interleaving of get_settings, save_settings,
\* validate_hotkey, test_hotkey, remove_target, the hotkey-pressed listener
\* and the conference joined/left listeners, no set of threads ever waits in
\* a cycle for the settings-store, shortcuts, call-controller, call-state and
\* current-target locks, a thread inside an operation stops only to wait for
\* a lock, a thread that is in no operation holds no lock, and every operation
\* that has started eventually returns, all the locks it took released.
C40_NoDeadlock ==
    /\ [](~Deadlocked /\ \A t \in Threads : ~Stuck(t) /\ (~Busy(t) => Holds(t) = {}))
    /\ \A t \in Threads : Busy(t) ~> (~Busy(t) /\ Holds(t) = {})

\* A listener holds the controller's lock and waits for the state lock, which
\* a running join holds together with the lock of the current target.
C40_Witness ==
    \E t, u \in Threads :
       /\ t # u
       /\ app_locks.call_controller = t
       /\ Wants(t) = "state"
       /\ Holds(u) = {"state", "current_target"}

====
